---- MODULE Spec2Model ----
(***************************************************************************)
(* The Congo shop (src/app.py, src/models.py): a Flask application with    *)
(* four tables (User, Item, Order, OrderItem) and one cookie session that  *)
(* holds the login identity, the catalog name list and the cart.           *)
(*                                                                         *)
(* Every route handler is a function from (state, request) to (state,      *)
(* response); an action serves one request from start to end, the          *)
(* before_request gate included, and keeps the state the handler leaves.   *)
(* The response is the handler's output, sent to the client: it is no part *)
(* of the state.                                                           *)
(* Money is counted in cents: Item.price is                                *)
(* Numeric(10,2), read back as an exact two-place decimal, and a sum of    *)
(* price * quantity of at most 15 significant digits survives the Float    *)
(* column of Order.total unchanged to the cent.                            *)
(*                                                                         *)
(* The repository also carries sqlalchemy/orm/unitofwork.py, the flush     *)
(* engine of the ORM.  Its UOWTransaction is the variable uow; the         *)
(* specifications of the shop leave it as constructed, and the             *)
(* specifications of the flush leave the shop as constructed.              *)
(***************************************************************************)
EXTENDS Integers, Sequences, FiniteSets, TLC

VARIABLES
    users,          \* the User table, rows in id order
    items,          \* the Item table
    orders,         \* the Order table
    order_items,    \* the OrderItem table
    session,        \* the browser's Flask session
    inflight,       \* POST /users/ requests past their has_user check
    uow             \* the unit of work of a flush (sqlalchemy/orm/unitofwork.py)

vars == <<users, items, orders, order_items, session, inflight, uow>>

----------------------------------------------------------------------------
(* Bounds of the model *)

\* at most this many Order rows are posted
MaxOrders == 2

\* the absolute quantities held in the cart and in the OrderItem rows sum to
\* at most this
MaxQty == 5

\* at most this many registrations are in flight at once
MaxInFlight == 2

\* at most this many dependencies are added to a flush by the dependency
\* processors
MaxDependencies == 2

----------------------------------------------------------------------------
(* unitofwork.py: UOWTransaction.__init__.  mappers: mapper -> set of      *)
(* states; states: state -> <<isdelete, listonly>>; presort_actions: the   *)
(* Preprocess objects in the order they were registered;                   *)
(* postsort_actions: the PostSortRec objects; dependencies: pairs <<a, b>> *)
(* of them, b to run after a.  pc is the place the flush is at, todo and   *)
(* ret the presort loop's list and flag; todo_set and subset are the        *)
(* actions the sort has still to hand out and those of the subset it       *)
(* handed out last, executed the actions run so far; presorted and         *)
(* repeated note what the Preprocess objects have handled.                 *)

UOWTransaction ==
    [pc |-> "register",
     mappers |-> <<>>, states |-> <<>>,
     presort_actions |-> <<>>, postsort_actions |-> {}, dependencies |-> {},
     cycles |-> {}, todo |-> <<>>, ret |-> FALSE, executed |-> {},
     presorted |-> {}, repeated |-> {}, todo_set |-> {}, subset |-> {}]

----------------------------------------------------------------------------
(* Session values.  The Flask session is one dictionary whose values are   *)
(* the login name (a string), the catalog name list and the cart           *)
(* quantities (integers), all under string keys chosen by the handlers or  *)
(* by the request.                                                         *)

StrVal(s) == [kind |-> "str", str |-> s, num |-> 0, list |-> <<>>]

IntVal(n) == [kind |-> "int", str |-> "", num |-> n, list |-> <<>>]

ListVal(l) == [kind |-> "list", str |-> "", num |-> 0, list |-> l]

\* Python truth value of a session value
Truthy(v) ==
    CASE v.kind = "int" -> v.num # 0
      [] v.kind = "str" -> v.str # ""
      [] OTHER -> v.list # <<>>

\* session[k] = v
Put(sess, k, v) == [x \in DOMAIN sess \cup {k} |-> IF x = k THEN v ELSE sess[x]]

\* del session[k]; session.pop(k, None)
Del(sess, k) == [x \in DOMAIN sess \ {k} |-> sess[x]]

EmptySession == [x \in {} |-> IntVal(0)]

----------------------------------------------------------------------------
(* Request inputs *)

Form(username, name, email, address, payment, password, password_conf) ==
    [username |-> username, name |-> name, email |-> email, address |-> address,
     payment |-> payment, password |-> password, password_conf |-> password_conf]

\* registration forms: two users that can coexist, and forms that clash with
\* them in one unique column, or whose confirmation differs
RegForms ==
    { Form("alice", "Alice", "a@x", "1 Elm St", "4111", "pw-a", "pw-a"),
      Form("bob", "Bob", "b@x", "2 Oak St", "4222", "pw-b", "pw-b"),
      Form("alice", "Alice", "b@x", "1 Elm St", "4222", "pw-c", "pw-c"),
      Form("bob", "Bob", "a@x", "2 Oak St", "4222", "pw-b", "pw-b"),
      Form("bob", "Bob", "b@x", "2 Oak St", "4111", "pw-b", "pw-b"),
      Form("bob", "Bob", "b@x", "2 Oak St", "4222", "pw-b", "pw-a"),
      Form("alice", "Alice", "b@x", "1 Elm St", "4222", "pw-c", "pw-a") }

LoginForms ==
    { [username |-> u, password |-> p] :
        u \in {"alice", "bob", "carol"}, p \in {"pw-a", "pw-b"} }

\* names sent to the cart: two catalog items and a name that is no item
CartNames == {"Normal Cloak", "Normal Helmet", "Gizmo"}

\* the text of the quantity field
QuantityTexts == { <<"2">>, <<"3">>, <<"x">> }

\* the <itemid> part of /items/<itemid>/
ItemIdTexts == { <<"1">>, <<"9">> }

Paths ==
    {"/", "/register/", "/users/", "/login/", "/items/", "/items/<itemid>/",
     "/cart/", "/checkout/", "/orders/", "/logout/", "/static/style.css",
     "/nowhere/"}

NoForm == [none |-> TRUE]

Req(method, path, form) == [method |-> method, path |-> path, form |-> form]

----------------------------------------------------------------------------
(* int(text) of Python, on a field given as its characters: an optional    *)
(* sign and decimal digits; anything else raises ValueError.               *)

DigitValue ==
    [c \in {"0", "1", "2", "3", "4", "5", "6", "7", "8", "9"} |->
        CASE c = "0" -> 0 [] c = "1" -> 1 [] c = "2" -> 2 [] c = "3" -> 3
          [] c = "4" -> 4 [] c = "5" -> 5 [] c = "6" -> 6 [] c = "7" -> 7
          [] c = "8" -> 8 [] OTHER -> 9]

IsDigits(t) == t # <<>> /\ \A i \in 1..Len(t) : t[i] \in DOMAIN DigitValue

RECURSIVE DigitsToNat(_)
DigitsToNat(t) ==
    IF t = <<>> THEN 0
    ELSE DigitsToNat(SubSeq(t, 1, Len(t) - 1)) * 10 + DigitValue[t[Len(t)]]

IsIntText(t) ==
    /\ t # <<>>
    /\ IF t[1] \in {"-", "+"} THEN IsDigits(Tail(t)) ELSE IsDigits(t)

ParseInt(t) ==
    IF t[1] = "-" THEN 0 - DigitsToNat(Tail(t))
    ELSE IF t[1] = "+" THEN DigitsToNat(Tail(t))
    ELSE DigitsToNat(t)

----------------------------------------------------------------------------
(* Responses *)

\* the keyword arguments a view hands to its template, beside title, username
\* and the messages: none of them
NoContext ==
    [items |-> <<>>, item |-> <<>>, names |-> <<>>, lines |-> <<>>, total |-> <<>>,
     user |-> <<>>, orders |-> <<>>]

Redirect(location) ==
    [status |-> 302, body |-> "", location |-> location, slot |-> "", message |-> "",
     context |-> NoContext]

\* render_template(template, <slot>=message)
Render(template, slot, message) ==
    [status |-> 200, body |-> template, location |-> "", slot |-> slot,
     message |-> message, context |-> NoContext]

Page(template) == Render(template, "", "")

\* render_template(template, items=.., total=.., user=.., orders=..)
RenderWith(template, context) ==
    [status |-> 200, body |-> template, location |-> "", slot |-> "",
     message |-> "", context |-> context]

\* return text, status
Plain(text, status) ==
    [status |-> status, body |-> text, location |-> "", slot |-> "", message |-> "",
     context |-> NoContext]

\* an exception no handler catches: Flask answers 500
ServerError == Plain("Internal Server Error", 500)

NoResponse == Plain("", 0)

\* the state a handler works on, and the response it gives
Reply(s, r) == [s EXCEPT !.resp = r]

----------------------------------------------------------------------------
(* models.py: the User table *)

\* db.session.query(User).filter_by(username=username).first() is not None
has_user(table, username) ==
    \E i \in 1..Len(table) : table[i].username = username

\* a lookup that takes the first row of the table, whatever its username
first_user_unfiltered(table, username) ==
    IF table = <<>> THEN <<>> ELSE <<table[1]>>

\* User.query.filter_by(username=username).first(), as a sequence of at most one row
first_user(table, username) ==
    LET found == SelectSeq(table, LAMBDA u : u.username = username)
    IN IF found = <<>> THEN <<>> ELSE <<found[1]>>

\* User with unique=True on username alone
user_insert_raises_username_only(table, row) ==
    \E i \in 1..Len(table) : table[i].username = row.username

\* the unique=True columns of User: the INSERT raises IntegrityError on a clash
user_insert_raises(table, row) ==
    \E i \in 1..Len(table) :
        \/ table[i].username = row.username
        \/ table[i].email = row.email
        \/ table[i].payment = row.payment

\* models.create_user whose failing insert stays in the table: no rollback
models_create_user_no_rollback(table, username, name, email, address, payment, password) ==
    LET new_user == [id |-> Len(table) + 1, username |-> username, name |-> name,
                     email |-> email, address |-> address, payment |-> payment,
                     password |-> password]
    IN IF user_insert_raises(table, new_user)
       THEN [ok |-> FALSE, users |-> Append(table, new_user)]
       ELSE [ok |-> TRUE, users |-> Append(table, new_user)]

\* models.create_user: [ok, users]
models_create_user(table, username, name, email, address, payment, password) ==
    LET new_user == [id |-> Len(table) + 1, username |-> username, name |-> name,
                     email |-> email, address |-> address, payment |-> payment,
                     password |-> password]
    IN IF user_insert_raises(table, new_user)
       THEN [ok |-> FALSE, users |-> table]
       ELSE [ok |-> TRUE, users |-> Append(table, new_user)]

----------------------------------------------------------------------------
(* models.py: the Item table and its seed.  Prices are in cents.           *)

SeedItems ==
    << [name |-> "Normal Pocket Watch", image |-> "watch.jpg", price |-> 10099],
       [name |-> "Normal Ice Cream Machine", image |-> "ice_cream.jpg", price |-> 5249],
       [name |-> "Normal Cloak", image |-> "cloak.jpg", price |-> 1000],
       [name |-> "Normal Helmet", image |-> "helmet.jpg", price |-> 1200],
       [name |-> "Normal Wormhole Generator", image |-> "generator.jpg",
        price |-> 10000000] >>

\* Item.query.filter_by(name=name).first() is truthy
has_item(table, name) == \E i \in 1..Len(table) : table[i].name = name

\* add_<item> without the check for a row of that name
add_item_unchecked(table, seed) ==
    Append(table, [id |-> Len(table) + 1, name |-> seed.name,
                   image |-> seed.image, price |-> seed.price])

\* add_pocket_watch .. add_wormhole_generator: insert the item unless a row
\* of that name is there; the new table
add_item(table, seed) ==
    IF has_item(table, seed.name) THEN table
    ELSE Append(table, [id |-> Len(table) + 1, name |-> seed.name,
                        image |-> seed.image, price |-> seed.price])

RECURSIVE add_items_table(_, _)
add_items_table(table, n) ==
    IF n = 0 THEN table
    ELSE add_item(add_items_table(table, n - 1), SeedItems[n])

\* add_items: the names it returns, and the table it leaves
add_items(table) ==
    [names |-> [n \in 1..Len(SeedItems) |-> SeedItems[n].name],
     items |-> add_items_table(table, Len(SeedItems))]

----------------------------------------------------------------------------
(* app.py: the before_request gate *)

allowed_routes == {"/", "/register/", "/login/", "/users/", "/orders/"}

\* request.path.startswith('/static'), over the paths of the model
StartsWithStatic(path) == path \in {"/static/style.css"}

\* check_login with the cart's path listed among the allowed routes
check_login_cart_listed(s, r) ==
    /\ "username" \notin DOMAIN s.session
    /\ r.path \notin allowed_routes \cup {"/cart/"}
    /\ ~StartsWithStatic(r.path)

\* check_login returns the redirect (TRUE) or lets the request through
check_login(s, r) ==
    /\ "username" \notin DOMAIN s.session
    /\ r.path \notin allowed_routes
    /\ ~StartsWithStatic(r.path)

\* session.get('username') is truthy
LoggedIn(sess) == "username" \in DOMAIN sess /\ Truthy(sess["username"])

----------------------------------------------------------------------------
(* app.py: registration, login, logout *)

index(s) ==
    IF LoggedIn(s.session) THEN Reply(s, Redirect("/items/"))
    ELSE Reply(s, Redirect("/login/"))

register(s) == Reply(s, Page("register_form.html"))

\* create_user from its second check on: the has_user check has passed
create_user_insert(s, form) ==
    IF form.password # form.password_conf
    THEN Reply(s, Render("register_form.html", "password_message",
                         "Passwords must match."))
    ELSE LET made == models_create_user(s.users, form.username, form.name,
                                        form.email, form.address, form.payment,
                                        form.password)
         IN IF ~made.ok
            THEN Reply([s EXCEPT !.users = made.users],
                       Render("register_form.html", "create_message",
                              "An unknown error occured when creating this User"))
            ELSE Reply([s EXCEPT !.users = made.users], Redirect("/login/"))

\* create_user without its has_user check
create_user_unchecked(s, form) == create_user_insert(s, form)

\* create_user that compares the passwords before it looks the username up
create_user_password_first(s, form) ==
    IF form.password # form.password_conf
    THEN Reply(s, Render("register_form.html", "password_message",
                         "Passwords must match."))
    ELSE IF has_user(s.users, form.username)
    THEN Reply(s, Render("register_form.html", "username_message",
                         "Username already exists. Please choose another."))
    ELSE create_user_insert(s, form)

create_user(s, form) ==
    IF has_user(s.users, form.username)
    THEN Reply(s, Render("register_form.html", "username_message",
                         "Username already exists. Please choose another."))
    ELSE create_user_insert(s, form)

login_form(s) == Reply(s, Page("login_form.html"))

\* login that stores the name in the session before it checks the password
login_store_first(s, form) ==
    LET user == first_user(s.users, form.username)
        stored == [s EXCEPT !.session = Put(@, "username", StrVal(form.username))]
    IN IF user = <<>> \/ user[1].password # form.password
       THEN Reply(stored, Render("login_form.html", "message",
                                 "Wrong username or password"))
       ELSE Reply(stored, Redirect("/items/"))

\* login that does not compare the password
login_any_password(s, form) ==
    LET user == first_user(s.users, form.username)
    IN IF user = <<>>
       THEN Reply(s, Render("login_form.html", "message",
                            "Wrong username or password"))
       ELSE Reply([s EXCEPT !.session = Put(@, "username", StrVal(form.username))],
                  Redirect("/items/"))

\* login that turns away a wrong password only when the user has a row
login_without_row(s, form) ==
    LET user == first_user(s.users, form.username)
    IN IF user # <<>> /\ user[1].password # form.password
       THEN Reply(s, Render("login_form.html", "message",
                            "Wrong username or password"))
       ELSE Reply([s EXCEPT !.session = Put(@, "username", StrVal(form.username))],
                  Redirect("/items/"))

login(s, form) ==
    LET user == first_user(s.users, form.username)
    IN IF user = <<>> \/ user[1].password # form.password
       THEN Reply(s, Render("login_form.html", "message",
                            "Wrong username or password"))
       ELSE Reply([s EXCEPT !.session = Put(@, "username", StrVal(form.username))],
                  Redirect("/items/"))

logout_form(s) == Reply(s, Page("logout.html"))

\* logout that takes the user's name out of the session and leaves the rest
logout_username_only(s) ==
    Reply([s EXCEPT !.session = Del(@, "username")], Redirect("/login/"))

logout(s) == Reply([s EXCEPT !.session = EmptySession], Redirect("/login/"))

----------------------------------------------------------------------------
(* app.py: catalog *)

\* a catalog view that takes every catalog quantity out of the session
get_items_reseeding(s) ==
    LET seeded == add_items(s.items)
    IN Reply([s EXCEPT !.items = seeded.items,
                       !.session =
                           Put([k \in DOMAIN @ \ {seeded.names[i] :
                                                     i \in 1..Len(seeded.names)}
                                  |-> @[k]],
                               "items", ListVal(seeded.names))],
             RenderWith("items.html", [NoContext EXCEPT !.items = seeded.items]))

get_items(s) ==
    LET seeded == add_items(s.items)
    IN Reply([s EXCEPT !.items = seeded.items,
                       !.session = Put(@, "items", ListVal(seeded.names))],
             RenderWith("items.html", [NoContext EXCEPT !.items = seeded.items]))

\* Item.query.filter_by(id=itemid).first(): the id column is an integer, the
\* path part is text, which matches a row when it reads as that integer
find_item(table, itemid) ==
    IF IsIntText(itemid)
    THEN SelectSeq(table, LAMBDA x : x.id = ParseInt(itemid))
    ELSE <<>>

get_item(s, itemid) ==
    LET found == find_item(s.items, itemid)
    IN Reply(s, RenderWith("get_item.html",
                           [NoContext EXCEPT
                               !.item = IF found = <<>> THEN <<>> ELSE <<found[1]>>]))

----------------------------------------------------------------------------
(* app.py: cart *)

\* add_to_cart that stores the new quantity over the old one
add_to_cart_overwrite(s, form) ==
    IF ~IsIntText(form.quantity) THEN Reply(s, ServerError)
    ELSE Reply([s EXCEPT !.session =
                   Put(@, form.item, IntVal(ParseInt(form.quantity)))],
               Redirect("/cart/"))

\* add_to_cart that counts a quantity it cannot read as 0
add_to_cart_lenient(s, form) ==
    LET asked == IF IsIntText(form.quantity) THEN ParseInt(form.quantity) ELSE 0
        old == IF form.item \in DOMAIN s.session /\ s.session[form.item].kind = "int"
               THEN s.session[form.item].num ELSE 0
    IN Reply([s EXCEPT !.session = Put(@, form.item, IntVal(old + asked))],
             Redirect("/cart/"))

add_to_cart(s, form) ==
    IF form.item \in DOMAIN s.session
    THEN \* session[item] + int(quantity): the left operand is read first
         IF ~IsIntText(form.quantity) \/ s.session[form.item].kind # "int"
         THEN Reply(s, ServerError)
         ELSE Reply([s EXCEPT !.session =
                        Put(@, form.item,
                            IntVal(@[form.item].num + ParseInt(form.quantity)))],
                    Redirect("/cart/"))
    ELSE IF ~IsIntText(form.quantity)
         THEN Reply(s, ServerError)
         ELSE Reply([s EXCEPT !.session =
                        Put(@, form.item, IntVal(ParseInt(form.quantity)))],
                    Redirect("/cart/"))

\* show_cart.html: the template renders each name of the list it is given;
\* a value that is not a list cannot be iterated and the rendering raises
show_cart_html(value) ==
    IF value.kind = "list"
    THEN RenderWith("show_cart.html", [NoContext EXCEPT !.names = value.list])
    ELSE ServerError

\* show_cart with session.get('items', []): an empty cart when there is no list
show_cart_default(s) ==
    IF "items" \notin DOMAIN s.session
    THEN Reply(s, show_cart_html(ListVal(<<>>)))
    ELSE Reply(s, show_cart_html(s.session["items"]))

\* items = session['items'] raises KeyError when the session has no such key
show_cart(s) ==
    IF "items" \notin DOMAIN s.session THEN Reply(s, ServerError)
    ELSE Reply(s, show_cart_html(s.session["items"]))

\* the cart remove that answers 200 whether or not the name is in the session
delete_cart_item_unchecked(s, item) ==
    Reply([s EXCEPT !.session = Del(@, item)], Plain("", 200))

delete_cart_item(s, item) ==
    IF item \notin DOMAIN s.session THEN Reply(s, Plain("Item not in cart.", 404))
    ELSE Reply([s EXCEPT !.session = Del(@, item)], Plain("", 200))

----------------------------------------------------------------------------
(* app.py: checkout and orders *)

\* [(x, session[x.name]) for x in Item.query.all()
\*      if x.name in session and session[x.name]]
cart_lines(s) ==
    LET rows == SelectSeq(s.items, LAMBDA x : /\ x.name \in DOMAIN s.session
                                              /\ Truthy(s.session[x.name]))
    IN [i \in 1..Len(rows) |-> [item |-> rows[i], qty |-> s.session[rows[i].name]]]

\* price * quantity is defined for integer quantities only
lines_raise(lines) == \E i \in 1..Len(lines) : lines[i].qty.kind # "int"

\* the sum of the prices, each counted once
RECURSIVE lines_total_prices(_)
lines_total_prices(lines) ==
    IF lines = <<>> THEN 0
    ELSE lines[1].item.price + lines_total_prices(Tail(lines))

\* sum(x[0].price * x[1] for x in items), in cents
RECURSIVE lines_total(_)
lines_total(lines) ==
    IF lines = <<>> THEN 0
    ELSE lines[1].item.price * lines[1].qty.num + lines_total(Tail(lines))

DigitChars == <<"0", "1", "2", "3", "4", "5", "6", "7", "8", "9">>

\* the decimal digits of a natural number
RECURSIVE NatText(_)
NatText(n) ==
    IF n < 10 THEN <<DigitChars[n + 1]>>
    ELSE Append(NatText(n \div 10), DigitChars[(n % 10) + 1])

\* the digits of n, zero-filled on the left to a width
ZeroFilled(n, width) ==
    LET text == NatText(n)
    IN [i \in 1..(width - Len(text)) |-> "0"] \o text

\* the ',' option of the format: the digits in groups of three
RECURSIVE Grouped(_)
Grouped(n) ==
    IF n < 1000 THEN NatText(n)
    ELSE Grouped(n \div 1000) \o <<",">> \o ZeroFilled(n % 1000, 3)

\* f"{total:,.2f}" of an amount in cents, as its characters
FormatMoney(cents) ==
    LET abs == IF cents < 0 THEN 0 - cents ELSE cents
    IN (IF cents < 0 THEN <<"-">> ELSE <<>>)
       \o Grouped(abs \div 100) \o <<".">> \o ZeroFilled(abs % 100, 2)

\* a checkout view that shows the lines of positive quantity alone
get_checkout_positive(s) ==
    LET lines == SelectSeq(cart_lines(s), LAMBDA l : l.qty.kind = "int" /\ l.qty.num > 0)
    IN IF lines_raise(cart_lines(s)) \/ "username" \notin DOMAIN s.session
       THEN Reply(s, ServerError)
       ELSE Reply(s, RenderWith("checkout.html",
                    [NoContext EXCEPT
                        !.lines = lines,
                        !.total = FormatMoney(lines_total(lines)),
                        !.user = first_user(s.users, s.session["username"].str)]))

get_checkout(s) ==
    LET lines == cart_lines(s)
    IN IF lines_raise(lines) \/ "username" \notin DOMAIN s.session
       THEN Reply(s, ServerError)
       ELSE Reply(s, RenderWith("checkout.html",
                    [NoContext EXCEPT
                        !.lines = lines,
                        !.total = FormatMoney(lines_total(lines)),
                        !.user = first_user(s.users, s.session["username"].str)]))

\* a post that leaves the session as it found it
pop_none(sess, names) == sess

\* for item in session.get('items'): session.pop(item, None)
RECURSIVE pop_all(_, _)
pop_all(sess, names) ==
    IF names = <<>> THEN sess ELSE pop_all(Del(sess, names[1]), Tail(names))

\* OrderItem rows that number the lines instead of carrying the items' ids
order_item_rows_line_number(lines, order_id, last_id) ==
    [i \in 1..Len(lines) |->
        [id |-> last_id + i, order_id |-> order_id,
         item_id |-> i, quantity |-> lines[i].qty.num]]

\* OrderItem rows written with the id the next Order would get
order_item_rows_next_order(lines, order_id, last_id) ==
    [i \in 1..Len(lines) |->
        [id |-> last_id + i, order_id |-> order_id + 1,
         item_id |-> lines[i].item.id, quantity |-> lines[i].qty.num]]

\* db.session.add(models.OrderItem(order_id=order.id, item_id=item.id,
\*                                  quantity=qty)) for each line
order_item_rows(lines, order_id, last_id) ==
    [i \in 1..Len(lines) |->
        [id |-> last_id + i, order_id |-> order_id,
         item_id |-> lines[i].item.id, quantity |-> lines[i].qty.num]]

\* a commit that writes the new rows over the OrderItem table
commit_order_overwriting(s, order, rows) ==
    [s EXCEPT !.orders = Append(@, order), !.order_items = rows]

\* db.session.add(order); db.session.commit(); the OrderItem rows added;
\* db.session.commit()
commit_order(s, order, rows) ==
    [s EXCEPT !.orders = Append(@, order), !.order_items = @ \o rows]

\* post_order with session.get('username'): without a user the Order is
\* written with an empty name and address
post_order_guest(s) ==
    LET user == IF "username" \in DOMAIN s.session
                THEN first_user(s.users, s.session["username"].str) ELSE <<>>
        lines == cart_lines(s)
    IN IF lines_raise(lines) THEN Reply(s, ServerError)
       ELSE
       LET order == [id |-> Len(s.orders) + 1,
                     name |-> IF user = <<>> THEN "" ELSE user[1].name,
                     address |-> IF user = <<>> THEN "" ELSE user[1].address,
                     total |-> lines_total(lines)]
           rows == order_item_rows(lines, order.id, Len(s.order_items))
           committed == commit_order(s, order, rows)
       IN IF "items" \notin DOMAIN s.session \/ s.session["items"].kind # "list"
          THEN Reply(committed, ServerError)
          ELSE Reply([committed EXCEPT
                          !.session = pop_all(@, s.session["items"].list)],
                     Plain("", 200))

post_order(s) ==
    IF "username" \notin DOMAIN s.session THEN Reply(s, ServerError)
    ELSE
    LET user == first_user(s.users, s.session["username"].str)
        lines == cart_lines(s)
    IN IF lines_raise(lines) \/ user = <<>> THEN Reply(s, ServerError)
       ELSE
       LET order == [id |-> Len(s.orders) + 1, name |-> user[1].name,
                     address |-> user[1].address, total |-> lines_total(lines)]
           rows == order_item_rows(lines, order.id, Len(s.order_items))
           committed == commit_order(s, order, rows)
       IN IF "items" \notin DOMAIN s.session \/ s.session["items"].kind # "list"
          THEN Reply(committed, ServerError)
          ELSE Reply([committed EXCEPT
                          !.session = pop_all(@, s.session["items"].list)],
                     Plain("", 200))

\* Order.items and OrderItem.item: an order with the OrderItem rows that carry
\* its id, each with the Item row it refers to
order_with_items(s, order) ==
    LET rows == SelectSeq(s.order_items, LAMBDA oi : oi.order_id = order.id)
    IN [order |-> order,
        items |-> [i \in 1..Len(rows) |->
                     [row |-> rows[i],
                      item |-> SelectSeq(s.items,
                                         LAMBDA x : x.id = rows[i].item_id)]]]

\* the order listing that shows the orders of the session's user alone
get_orders_own(s) ==
    LET user == IF "username" \in DOMAIN s.session
                THEN first_user(s.users, s.session["username"].str) ELSE <<>>
        own == SelectSeq(s.orders, LAMBDA o : user # <<>> /\ o.name = user[1].name)
    IN Reply(s, RenderWith("orders.html",
                 [NoContext EXCEPT
                     !.orders = [i \in 1..Len(own) |-> order_with_items(s, own[i])]]))

\* Order.query.all(), each order with its items
get_orders(s) ==
    Reply(s, RenderWith("orders.html",
                 [NoContext EXCEPT
                     !.orders = [i \in 1..Len(s.orders) |->
                                    order_with_items(s, s.orders[i])]]))

----------------------------------------------------------------------------
(* The routes of app.py, behind the gate *)

Routes ==
    { <<"GET", "/">>, <<"GET", "/register/">>, <<"POST", "/users/">>,
      <<"GET", "/login/">>, <<"POST", "/login/">>, <<"GET", "/items/">>,
      <<"GET", "/items/<itemid>/">>, <<"POST", "/cart/">>, <<"GET", "/cart/">>,
      <<"DELETE", "/cart/">>, <<"GET", "/checkout/">>, <<"POST", "/orders/">>,
      <<"GET", "/orders/">>, <<"GET", "/logout/">>, <<"POST", "/logout/">>,
      <<"GET", "/static/style.css">> }

route(s, r) ==
    LET at == <<r.method, r.path>>
    IN CASE at = <<"GET", "/">> -> index(s)
         [] at = <<"GET", "/register/">> -> register(s)
         [] at = <<"POST", "/users/">> -> create_user(s, r.form)
         [] at = <<"GET", "/login/">> -> login_form(s)
         [] at = <<"POST", "/login/">> -> login(s, r.form)
         [] at = <<"GET", "/items/">> -> get_items(s)
         [] at = <<"GET", "/items/<itemid>/">> -> get_item(s, r.form.itemid)
         [] at = <<"POST", "/cart/">> -> add_to_cart(s, r.form)
         [] at = <<"GET", "/cart/">> -> show_cart(s)
         [] at = <<"DELETE", "/cart/">> -> delete_cart_item(s, r.form.item)
         [] at = <<"GET", "/checkout/">> -> get_checkout(s)
         [] at = <<"POST", "/orders/">> -> post_order(s)
         [] at = <<"GET", "/orders/">> -> get_orders(s)
         [] at = <<"GET", "/logout/">> -> logout_form(s)
         [] at = <<"POST", "/logout/">> -> logout(s)
         [] at = <<"GET", "/static/style.css">> -> Reply(s, Page("style.css"))
         [] \E m \in {"GET", "POST", "DELETE"} : <<m, r.path>> \in Routes ->
                Reply(s, Plain("Method Not Allowed", 405))
         [] OTHER -> Reply(s, Plain("Not Found", 404))

\* one request, served whole: the gate, then the route's handler
Handle(s, r) ==
    IF check_login(s, r) THEN Reply(s, Redirect("/login/")) ELSE route(s, r)

----------------------------------------------------------------------------
(* The state machine *)

State ==
    [users |-> users, items |-> items, orders |-> orders,
     order_items |-> order_items, session |-> session, resp |-> NoResponse]

Init ==
    /\ users = <<>>
    /\ items = <<>>
    /\ orders = <<>>
    /\ order_items = <<>>
    /\ session = EmptySession
    /\ inflight = <<>>
    /\ uow = UOWTransaction

\* the quantities of the session: every integer value in it
RECURSIVE SumAbs(_, _)
SumAbs(sess, keys) ==
    IF keys = {} THEN 0
    ELSE LET k == CHOOSE x \in keys : TRUE
             n == sess[k].num
         IN (IF n < 0 THEN 0 - n ELSE n) + SumAbs(sess, keys \ {k})

\* the quantities of the OrderItem rows
RECURSIVE SumRows(_)
SumRows(rows) ==
    IF rows = <<>> THEN 0
    ELSE (IF rows[1].quantity < 0 THEN 0 - rows[1].quantity ELSE rows[1].quantity)
         + SumRows(Tail(rows))

WithinBounds(t) ==
    /\ Len(t.orders) <= MaxOrders
    /\ SumAbs(t.session, DOMAIN t.session) + SumRows(t.order_items) <= MaxQty

\* serving r keeps the model within its bounds
Bounded(r) == WithinBounds(Handle(State, r))

\* r is served: the state is the one its handler leaves
Served(r) ==
    LET t == Handle(State, r)
    IN /\ users' = t.users
       /\ items' = t.items
       /\ orders' = t.orders
       /\ order_items' = t.order_items
       /\ session' = t.session
       /\ UNCHANGED <<inflight, uow>>

Index ==
    LET r == Req("GET", "/", NoForm)
    IN Bounded(r) /\ Served(r)

Register ==
    LET r == Req("GET", "/register/", NoForm)
    IN Bounded(r) /\ Served(r)

CreateUser ==
    \E f \in RegForms :
        LET r == Req("POST", "/users/", f)
        IN Bounded(r) /\ Served(r)

LoginForm ==
    LET r == Req("GET", "/login/", NoForm)
    IN Bounded(r) /\ Served(r)

Login ==
    \E f \in LoginForms :
        LET r == Req("POST", "/login/", f)
        IN Bounded(r) /\ Served(r)

GetItems ==
    LET r == Req("GET", "/items/", NoForm)
    IN Bounded(r) /\ Served(r)

GetItem ==
    \E i \in ItemIdTexts :
        LET r == Req("GET", "/items/<itemid>/", [itemid |-> i])
        IN Bounded(r) /\ Served(r)

AddToCart ==
    \E n \in CartNames, q \in QuantityTexts :
        LET r == Req("POST", "/cart/", [item |-> n, quantity |-> q])
        IN Bounded(r) /\ Served(r)

ShowCart ==
    LET r == Req("GET", "/cart/", NoForm)
    IN Bounded(r) /\ Served(r)

DeleteCartItem ==
    \E n \in CartNames :
        LET r == Req("DELETE", "/cart/", [item |-> n])
        IN Bounded(r) /\ Served(r)

GetCheckout ==
    LET r == Req("GET", "/checkout/", NoForm)
    IN Bounded(r) /\ Served(r)

PostOrder ==
    LET r == Req("POST", "/orders/", NoForm)
    IN Bounded(r) /\ Served(r)

GetOrders ==
    LET r == Req("GET", "/orders/", NoForm)
    IN Bounded(r) /\ Served(r)

LogoutForm ==
    LET r == Req("GET", "/logout/", NoForm)
    IN Bounded(r) /\ Served(r)

Logout ==
    LET r == Req("POST", "/logout/", NoForm)
    IN Bounded(r) /\ Served(r)

Static ==
    LET r == Req("GET", "/static/style.css", NoForm)
    IN Bounded(r) /\ Served(r)

\* a path with no route, and a route asked with a method it does not take
Unrouted ==
    \E r \in {Req("GET", "/nowhere/", NoForm), Req("POST", "/items/", NoForm)} :
        Bounded(r) /\ Served(r)

Next ==
    \/ Index \/ Register \/ CreateUser \/ LoginForm \/ Login \/ Logout
    \/ LogoutForm \/ GetItems \/ GetItem \/ AddToCart \/ ShowCart
    \/ DeleteCartItem \/ GetCheckout \/ PostOrder \/ GetOrders \/ Static
    \/ Unrouted

Spec == Init /\ [][Next]_vars

----------------------------------------------------------------------------
(* Registrations served by concurrent workers: a POST /users/ request runs *)
(* its has_user query, and its INSERT commits later, with other requests   *)
(* in between.  The gate lets /users/ through.                             *)

BeginCreateUser ==
    \E f \in RegForms :
        /\ Len(inflight) < MaxInFlight
        /\ ~has_user(users, f.username)
        /\ inflight' = Append(inflight, f)
        /\ UNCHANGED <<users, items, orders, order_items, session, uow>>

FinishCreateUser ==
    \E i \in 1..Len(inflight) :
        LET t == create_user_insert(State, inflight[i])
        IN /\ users' = t.users
           /\ inflight' = SubSeq(inflight, 1, i - 1)
                              \o SubSeq(inflight, i + 1, Len(inflight))
           /\ UNCHANGED <<items, orders, order_items, session, uow>>

NextRegister == CreateUser \/ BeginCreateUser \/ FinishCreateUser

SpecRegister == Init /\ [][NextRegister]_vars

----------------------------------------------------------------------------
(* The requests the actions serve *)

AddForms == { [item |-> n, quantity |-> q] : n \in CartNames, q \in QuantityTexts }

Requests ==
    { Req("GET", p, NoForm) :
        p \in {"/", "/register/", "/login/", "/items/", "/cart/", "/checkout/",
               "/orders/", "/logout/", "/static/style.css", "/nowhere/"} }
    \cup { Req("POST", p, NoForm) : p \in {"/orders/", "/logout/", "/items/"} }
    \cup { Req("POST", "/users/", f) : f \in RegForms }
    \cup { Req("POST", "/login/", f) : f \in LoginForms }
    \cup { Req("GET", "/items/<itemid>/", [itemid |-> i]) : i \in ItemIdTexts }
    \cup { Req("POST", "/cart/", f) : f \in AddForms }
    \cup { Req("DELETE", "/cart/", [item |-> n]) : n \in CartNames }

\* what serving r in the present state gives: the state left and the response
After(r) == Handle(State, r)

\* the tables and the session are as they were
SameState(t) ==
    /\ t.users = users
    /\ t.items = items
    /\ t.orders = orders
    /\ t.order_items = order_items
    /\ t.session = session

----------------------------------------------------------------------------
\* C1: a request from a session with no 'username', to a path that is none of
\* /, /register/, /login/, /users/, /orders/ and is not under /static, is
\* answered by a redirect to the login form; the route's handler does not
\* run: the session and the four tables stay as they are.
C1_GateRedirects ==
    \A r \in Requests :
        ( /\ "username" \notin DOMAIN session
          /\ r.path \notin {"/", "/register/", "/login/", "/users/", "/orders/"}
          /\ r.path # "/static/style.css" )
        => /\ After(r).resp = Redirect("/login/")
           /\ SameState(After(r))

\* a logged-out session after registrations, a catalog view and an order:
\* there are rows a gated request could have changed, and gated requests
\* that are redirected
C1_Witness ==
    /\ "username" \notin DOMAIN session
    /\ \E r \in Requests : After(r).resp = Redirect("/login/") /\ r.method # "GET"
    /\ users # <<>>
    /\ items # <<>>
    /\ orders # <<>>

----------------------------------------------------------------------------
\* the form create_user renders for a username that has a row
TakenForm ==
    Render("register_form.html", "username_message",
           "Username already exists. Please choose another.")

\* C2: a registration whose username is in the User table is answered with
\* the 'username taken' form and leaves the table as it is; of two
\* registrations with one username the second is so answered and adds no
\* row, whatever the other fields of the two are.
C2_UsernameTaken ==
    \A f \in RegForms :
        LET first == After(Req("POST", "/users/", f))
        IN /\ (\E i \in 1..Len(users) : users[i].username = f.username)
                => first.resp = TakenForm /\ SameState(first)
           /\ \A g \in RegForms :
                (g.username = f.username /\ first.resp = Redirect("/login/"))
                => LET second == Handle(first, Req("POST", "/users/", g))
                   IN /\ second.resp = TakenForm
                      /\ second.users = first.users
                      /\ Len(second.users) = Len(users) + 1

\* a row exists whose username a form repeats with another email and
\* payment, and that form is answered 'username taken'
C2_Witness ==
    /\ \E f \in RegForms : After(Req("POST", "/users/", f)).resp = TakenForm
    /\ \E f \in RegForms : \E i \in 1..Len(users) :
          /\ users[i].username = f.username
          /\ users[i].email # f.email
          /\ users[i].payment # f.payment

\* C3: whatever the sequence or interleaving of registrations, no two User
\* rows share a username, an email or a payment token.
C3_UniqueColumns ==
    \A i, j \in 1..Len(users) :
        i # j => /\ users[i].username # users[j].username
                 /\ users[i].email # users[j].email
                 /\ users[i].payment # users[j].payment

\* two rows are in the table and a request that passed its has_user check
\* is still in flight with a username, email or payment inserted since
C3_Witness ==
    /\ Len(users) = 2
    /\ \E k \in 1..Len(inflight) : \E i \in 1..Len(users) :
          \/ users[i].username = inflight[k].username
          \/ users[i].email = inflight[k].email
          \/ users[i].payment = inflight[k].payment

\* C4: a login with a username that has no row, or with a password that is
\* not the stored one, leaves the session (and the tables) as they are and
\* is answered with one and the same message in both cases.
C4_FailedLogin ==
    \A f \in LoginForms :
        (\A i \in 1..Len(users) :
            users[i].username = f.username => users[i].password # f.password)
        => /\ SameState(After(Req("POST", "/login/", f)))
           /\ After(Req("POST", "/login/", f)).resp =
                 Render("login_form.html", "message", "Wrong username or password")

\* a logged-in session with a cart; there are a form with an unknown
\* username and a form with a known username and a wrong password
C4_Witness ==
    /\ "username" \in DOMAIN session
    /\ "Normal Cloak" \in DOMAIN session
    /\ \E f \in LoginForms : \A i \in 1..Len(users) : users[i].username # f.username
    /\ \E g \in LoginForms : \E i \in 1..Len(users) :
          users[i].username = g.username /\ users[i].password # g.password

\* C5: a login is answered with the redirect to the catalog exactly when a
\* row has the submitted username and its stored password is the submitted
\* one, and then session['username'] is the submitted username.
C5_LoginSucceedsIff ==
    \A f \in LoginForms :
        LET ok == \E i \in 1..Len(users) :
                      users[i].username = f.username /\ users[i].password = f.password
            t == After(Req("POST", "/login/", f))
        IN /\ (t.resp = Redirect("/items/")) <=> ok
           /\ ok => /\ "username" \in DOMAIN t.session
                    /\ t.session["username"] = StrVal(f.username)

\* a session logged in as one user while the form of another user matches a
\* row: that login replaces the name
C5_Witness ==
    /\ "username" \in DOMAIN session
    /\ \E f \in LoginForms : \E i \in 1..Len(users) :
          /\ users[i].username = f.username
          /\ users[i].password = f.password
          /\ session["username"].str # f.username

----------------------------------------------------------------------------
\* the five seed names, in the order add_items lists them
CatalogNames ==
    << "Normal Pocket Watch", "Normal Ice Cream Machine", "Normal Cloak",
       "Normal Helmet", "Normal Wormhole Generator" >>

\* the table holds the five seed items and nothing else
IsCatalog(table) ==
    /\ Len(table) = 5
    /\ \A n \in 1..5 : table[n].id = n /\ table[n].name = CatalogNames[n]

\* C6: the catalog seed is idempotent: add_items returns the same five
\* names in the same order whatever the table holds; a catalog view leaves
\* the Item table with exactly the five seed items, ids 1 to 5, and further
\* views leave that table as it is.
C6_SeedIdempotent ==
    LET view == Req("GET", "/items/", NoForm)
        once == After(view)
        twice == Handle(once, view)
        thrice == Handle(twice, view)
    IN /\ add_items(items).names = CatalogNames
       /\ add_items(add_items(items).items).names = CatalogNames
       /\ items # <<>> => IsCatalog(items)
       /\ "username" \in DOMAIN session
            => /\ IsCatalog(once.items)
               /\ twice.items = once.items
               /\ thrice.items = once.items
               /\ once.session["items"] = ListVal(CatalogNames)
               /\ twice.session = once.session

\* the catalog has been viewed in this session and the table is seeded
C6_Witness ==
    /\ "items" \in DOMAIN session
    /\ session["items"] = ListVal(CatalogNames)
    /\ Len(items) = 5

\* quantity fields as sent, each with the integer it stands for
QuantityCases ==
    { << <<"2">>, 2 >>, << <<"3">>, 3 >>, << <<"-", "1">>, 0 - 1 >>,
      << <<"0">>, 0 >>, << <<"1", "2">>, 12 >> }

\* C7: cart add accumulates: two add requests for one name with integer
\* quantities q1 and q2, one after the other, leave the session quantity of
\* that name at what it was (nothing, when the name was absent) plus q1 + q2,
\* 2 then 3 giving 5, and leave every other entry of the session as it was.
\* The names are item names: not 'username' or 'items', the session's own keys.
C7_AddAccumulates ==
    "username" \in DOMAIN session =>
    \A n \in CartNames : \A c1, c2 \in QuantityCases :
        \A t1 \in {After(Req("POST", "/cart/", [item |-> n, quantity |-> c1[1]]))} :
        \A t2 \in {Handle(t1, Req("POST", "/cart/", [item |-> n, quantity |-> c2[1]]))} :
            LET old == IF n \in DOMAIN session THEN session[n].num ELSE 0
            IN /\ t1.resp = Redirect("/cart/")
               /\ t2.resp = Redirect("/cart/")
               /\ DOMAIN t2.session = DOMAIN session \cup {n}
               /\ t1.session[n] = IntVal(old + c1[2])
               /\ t2.session[n] = IntVal(old + c1[2] + c2[2])
               /\ \A k \in DOMAIN session \ {n} : t2.session[k] = session[k]

\* 2 then 3 of the cloak have been added
C7_Witness ==
    /\ "Normal Cloak" \in DOMAIN session
    /\ session["Normal Cloak"] = IntVal(5)

\* the price of the Item row with this id
ItemPrice(item_id) ==
    LET n == CHOOSE i \in 1..Len(items) : items[i].id = item_id
    IN items[n].price

\* price * quantity summed over the OrderItem rows of one order
RECURSIVE RowsTotal(_, _)
RowsTotal(rows, order_id) ==
    IF rows = <<>> THEN 0
    ELSE (IF rows[1].order_id = order_id
          THEN ItemPrice(rows[1].item_id) * rows[1].quantity ELSE 0)
         + RowsTotal(Tail(rows), order_id)

C9_OrderPost ==
    LET t == After(Req("POST", "/orders/", NoForm))
        lines == {x \in 1..Len(items) :
                     /\ items[x].name \in DOMAIN session
                     /\ session[items[x].name].num # 0}
        added == (Len(order_items) + 1)..Len(t.order_items)
        new == t.orders[Len(t.orders)]
    IN t.resp = Plain("", 200) =>
       /\ Len(t.orders) = Len(orders) + 1
       /\ SubSeq(t.orders, 1, Len(orders)) = orders
       /\ \A o \in 1..Len(orders) : orders[o].id # new.id
       /\ SubSeq(t.order_items, 1, Len(order_items)) = order_items
       /\ Cardinality(added) = Cardinality(lines)
       /\ \A x \in lines :
             \E k \in added :
                /\ t.order_items[k].item_id = items[x].id
                /\ t.order_items[k].order_id = new.id
                /\ t.order_items[k].quantity = session[items[x].name].num
       /\ \A k \in added : \A o \in 1..Len(order_items) :
             order_items[o].id # t.order_items[k].id
       /\ ( /\ lines # {}
            /\ \A x \in lines : items[x].name = "Normal Cloak"
            /\ session["Normal Cloak"].num = 2 )
          => /\ new.total = 2000
             /\ Cardinality(added) = 1
             /\ \A k \in added : t.order_items[k].quantity = 2

\* the example has been posted: one order of 20.00 with one row of 2 cloaks
C9_Witness ==
    /\ Len(orders) = 1
    /\ orders[1].total = 2000
    /\ Len(order_items) = 1
    /\ order_items[1].quantity = 2
    /\ order_items[1].order_id = orders[1].id
    /\ "Normal Cloak" \notin DOMAIN session

\* C10: after an order post that commits an Order, no name is left in the
\* session with a quantity, whatever names had been added and whether or not
\* the catalog had been viewed in the session.
C10_CartEmptyAfterPost ==
    LET t == After(Req("POST", "/orders/", NoForm))
    IN Len(t.orders) > Len(orders)
       => \A k \in DOMAIN t.session : t.session[k].kind # "int"

----------------------------------------------------------------------------
\* POST /orders/
PostOrderReq == Req("POST", "/orders/", NoForm)

\* the session holds a quantity other than zero under one of the cart's names
CartNonEmpty(sess) ==
    \E n \in CartNames : n \in DOMAIN sess /\ sess[n].kind = "int" /\ sess[n].num # 0

----------------------------------------------------------------------------
\* POST /logout/
LogoutReq == Req("POST", "/logout/", NoForm)

\* the session has no 'username', no 'items' list and no quantity: session.clear()
\* leaves no key at all
Cleared(sess) == DOMAIN sess = {}

(* C12, as stated: a logout POST from a logged-in session leaves the session *)
(* without 'username', 'items' and quantities, and the next request to any   *)
(* path outside the allow-list is redirected to the login form.              *)
C12_LogoutThenRedirect ==
    "username" \in DOMAIN session =>
    \A t \in {After(LogoutReq)} :
        /\ Cleared(t.session)
        /\ \A r \in Requests :
               r.path \notin allowed_routes =>
                   Handle(t, r).resp = Redirect("/login/")

(* C12, amended: a logout POST from a logged-in session answers with the     *)
(* redirect to the login form and clears the entire session, the tables      *)
(* staying as they are; the next request to any path that is neither         *)
(* allow-listed nor under /static is redirected to the login form and        *)
(* changes nothing, while a /static path is still served.                    *)
C12_LogoutClears ==
    "username" \in DOMAIN session =>
    \A t \in {After(LogoutReq)} :
        /\ t.resp = Redirect("/login/")
        /\ Cleared(t.session)
        /\ t.users = users /\ t.items = items
        /\ t.orders = orders /\ t.order_items = order_items
        /\ \A r \in Requests : \A u \in {Handle(t, r)} :
               IF r.path \notin allowed_routes /\ ~StartsWithStatic(r.path)
               THEN /\ u.resp = Redirect("/login/")
                    /\ [u EXCEPT !.resp = NoResponse] = [t EXCEPT !.resp = NoResponse]
               ELSE StartsWithStatic(r.path) => u.resp.status = 200

\* reached: a session that viewed the catalog and filled a cart, logged out
C12_Witness ==
    /\ Cleared(session)
    /\ users # <<>> /\ items # <<>> /\ orders # <<>>

----------------------------------------------------------------------------
\* the names a cart remove is asked for: the cart's names and two catalog
\* names the model never adds
RemoveNames == CartNames \cup {"Normal Pocket Watch", "Normal Wormhole Generator"}

(* C13: a cart remove from a logged-in session deletes the named entry and   *)
(* answers 200 when the name is in the session, every other session entry    *)
(* and every table staying as it was; it answers 404 and changes nothing     *)
(* when the name is not in the session.                                      *)
C13_CartRemove ==
    "username" \in DOMAIN session =>
    \A n \in RemoveNames :
        \A t \in {After(Req("DELETE", "/cart/", [item |-> n]))} :
            IF n \in DOMAIN session
            THEN /\ t.resp = Plain("", 200)
                 /\ DOMAIN t.session = DOMAIN session \ {n}
                 /\ \A k \in DOMAIN t.session : t.session[k] = session[k]
                 /\ t.users = users /\ t.items = items
                 /\ t.orders = orders /\ t.order_items = order_items
            ELSE /\ t.resp = Plain("Item not in cart.", 404)
                 /\ SameState(t)

\* reached: a logged-in session with two names in the cart and a third absent
C13_Witness ==
    /\ "username" \in DOMAIN session /\ "items" \in DOMAIN session
    /\ "Normal Cloak" \in DOMAIN session /\ "Gizmo" \in DOMAIN session
    /\ "Normal Helmet" \notin DOMAIN session

----------------------------------------------------------------------------
\* registrations for the cases of rejection: the forms of the model, each also
\* with a confirmation that differs, and a third user's forms with every
\* combination of a used and an unused email and payment token
RegCases ==
    RegForms
    \cup { [f EXCEPT !.password_conf = "pw-z"] : f \in RegForms }
    \cup { Form("carol", "Carol", e, "3 Fir St", p, "pw-d", "pw-d") :
             e \in {"a@x", "b@x", "c@x"}, p \in {"4111", "4222", "4333"} }

PasswordForm ==
    Render("register_form.html", "password_message", "Passwords must match.")

CreateErrorForm ==
    Render("register_form.html", "create_message",
           "An unknown error occured when creating this User")

(* C14: registration checks the username first: a request with a taken       *)
(* username and a confirmation that differs from the password gets the       *)
(* username error, one with a free username and such a confirmation gets the *)
(* password error, and in both cases the User table (with the rest of the    *)
(* state) is left as it was.                                                 *)
C14_ValidationOrder ==
    \A f \in RegCases :
        \A t \in {After(Req("POST", "/users/", f))} :
            /\ (has_user(users, f.username) /\ f.password # f.password_conf)
                   => t.resp = TakenForm /\ SameState(t)
            /\ (~has_user(users, f.username) /\ f.password # f.password_conf)
                   => t.resp = PasswordForm /\ SameState(t)

\* reached: a table with a row, where some form with a differing confirmation
\* repeats its username and another has a free username
C14_Witness ==
    /\ users # <<>>
    /\ \E f \in RegCases : /\ f.password # f.password_conf
                           /\ has_user(users, f.username)
                           /\ After(Req("POST", "/users/", f)).resp = TakenForm
    /\ \E f \in RegCases : /\ f.password # f.password_conf
                           /\ ~has_user(users, f.username)
                           /\ After(Req("POST", "/users/", f)).resp = PasswordForm

\* the insert of the form's row raises on the email or the payment column
ClashesOnly(table, f) ==
    /\ ~has_user(table, f.username)
    /\ f.password = f.password_conf
    /\ \E i \in 1..Len(table) :
          table[i].email = f.email \/ table[i].payment = f.payment

\* the form passes both checks and its insert raises nothing
ValidFor(table, f) ==
    /\ ~has_user(table, f.username)
    /\ f.password = f.password_conf
    /\ \A i \in 1..Len(table) :
          table[i].email # f.email /\ table[i].payment # f.payment

(* C15: a registration with a free username whose insert raises on a         *)
(* duplicate email or payment token adds no User row and leaves the state as *)
(* it was, is answered with the one creation-error form whichever column     *)
(* clashed, and a valid registration after it succeeds: it is redirected to  *)
(* the login form and its row is appended.                                   *)
C15_InsertRaises ==
    \A f \in RegCases :
        ClashesOnly(users, f) =>
        \A t \in {After(Req("POST", "/users/", f))} :
            /\ t.resp = CreateErrorForm
            /\ SameState(t)
            /\ \A g \in RegCases :
                   ValidFor(t.users, g) =>
                   \A u \in {Handle(t, Req("POST", "/users/", g))} :
                       /\ u.resp = Redirect("/login/")
                       /\ Len(u.users) = Len(users) + 1
                       /\ SubSeq(u.users, 1, Len(users)) = users
                       /\ LET row == u.users[Len(u.users)]
                          IN /\ row.username = g.username /\ row.email = g.email
                             /\ row.payment = g.payment /\ row.password = g.password
                             /\ row.name = g.name /\ row.address = g.address

\* reached: a table for which one form clashes on the email alone, another on
\* the payment token alone, a third on both, and a fourth is valid
C15_Witness ==
    /\ \E f \in RegCases : \E i \in 1..Len(users) :
          /\ ClashesOnly(users, f)
          /\ users[i].email = f.email
          /\ \A j \in 1..Len(users) : users[j].payment # f.payment
    /\ \E f \in RegCases : \E i \in 1..Len(users) :
          /\ ClashesOnly(users, f)
          /\ users[i].payment = f.payment
          /\ \A j \in 1..Len(users) : users[j].email # f.email
    /\ \E f \in RegCases : \E i \in 1..Len(users) :
          /\ ClashesOnly(users, f)
          /\ users[i].payment = f.payment /\ users[i].email = f.email
    /\ \E g \in RegCases : ValidFor(users, g)

----------------------------------------------------------------------------
\* GET /checkout/
CheckoutReq == Req("GET", "/checkout/", NoForm)

\* the pairs (Item, quantity) for the catalog items whose session quantity is
\* positive
PositiveLines(s) ==
    LET rows == SelectSeq(s.items, LAMBDA x : /\ x.name \in DOMAIN s.session
                                              /\ s.session[x.name].kind = "int"
                                              /\ s.session[x.name].num > 0)
    IN [i \in 1..Len(rows) |-> [item |-> rows[i], qty |-> s.session[rows[i].name]]]

(* C16: after any addition to the cart of a logged-in session, the lines of  *)
(* the checkout view and of the order post are exactly the pairs (Item,      *)
(* quantity) of the catalog items whose session quantity is positive, and    *)
(* the total is the sum over those lines: a zero, negative or absent         *)
(* quantity and a name outside the catalog give no line.                     *)
C16_PositiveLines ==
    "username" \in DOMAIN session =>
    \A n \in CartNames : \A c \in QuantityCases :
        \A t \in {After(Req("POST", "/cart/", [item |-> n, quantity |-> c[1]]))} :
            t.resp = Redirect("/cart/") =>
            \A view \in {Handle(t, CheckoutReq)} : \A post \in {Handle(t, PostOrderReq)} :
                /\ view.resp.context.lines = PositiveLines(t)
                /\ view.resp.context.total = FormatMoney(lines_total(PositiveLines(t)))
                /\ Len(post.orders) = Len(orders) + 1
                /\ post.orders[Len(post.orders)].total = lines_total(PositiveLines(t))
                /\ post.order_items =
                       order_items \o order_item_rows(PositiveLines(t), Len(orders) + 1,
                                                      Len(order_items))

----------------------------------------------------------------------------
\* GET /orders/
OrdersReq == Req("GET", "/orders/", NoForm)

(* C17: the order listing is served in every state, with or without a name   *)
(* in the session: it answers 200 with the orders template, shows every row  *)
(* of the Order table in order, each with exactly the OrderItem rows that    *)
(* carry its id, and changes nothing; what it shows does not depend on the   *)
(* session.                                                                  *)
C17_OrderListing ==
    \A t \in {After(OrdersReq)} :
        LET shown == t.resp.context.orders
        IN /\ t.resp.status = 200 /\ t.resp.body = "orders.html"
           /\ SameState(t)
           /\ Len(shown) = Len(orders)
           /\ \A i \in 1..Len(orders) :
                 /\ shown[i].order = orders[i]
                 /\ { shown[i].items[k].row : k \in 1..Len(shown[i].items) }
                       = { order_items[k] : k \in { j \in 1..Len(order_items) :
                                              order_items[j].order_id = orders[i].id } }
                 /\ \A k \in 1..Len(shown[i].items) :
                       \A x \in 1..Len(shown[i].items[k].item) :
                           shown[i].items[k].item[x].id = shown[i].items[k].row.item_id
           /\ t.resp = Handle([State EXCEPT !.session = EmptySession], OrdersReq).resp

\* reached: nobody is logged in and the table holds the orders of two users,
\* each with a line
C17_Witness ==
    /\ "username" \notin DOMAIN session
    /\ Len(orders) = 2
    /\ orders[1].name # orders[2].name
    /\ \A i \in 1..2 : \E k \in 1..Len(order_items) : order_items[k].order_id = i

----------------------------------------------------------------------------
\* the rows of a are the first rows of b, field by field
IsPrefix(a, b) == Len(a) <= Len(b) /\ SubSeq(b, 1, Len(a)) = a

(* C18: persisted rows are append-only: every request leaves each User,      *)
(* Item, Order and OrderItem row that existed before it in its place with    *)
(* all its fields as they were, so no row is ever deleted or changed and     *)
(* the OrderItem rows of an order stay as its post wrote them.               *)
C18_AppendOnly ==
    [][/\ IsPrefix(users, users')
       /\ IsPrefix(items, items')
       /\ IsPrefix(orders, orders')
       /\ IsPrefix(order_items, order_items')]_vars

\* reached: two users, the catalog, and a second order with its rows written
\* behind the rows of the first
C18_Witness ==
    /\ Len(users) = 2 /\ items # <<>>
    /\ Len(orders) = 2
    /\ \E i, j \in 1..Len(order_items) :
          i < j /\ order_items[i].order_id = 1 /\ order_items[j].order_id = 2

----------------------------------------------------------------------------
\* the amount in cents that a text of the form [-]d,ddd.dd shows
MoneyValue(text) ==
    LET digits == SelectSeq(text, LAMBDA ch : ch \in DOMAIN DigitValue)
        cents == DigitsToNat(digits)
    IN IF text[1] = "-" THEN 0 - cents ELSE cents

\* the names of the additions that come before a checkout: the cart's names
\* and the two catalog items of the highest price
CheckoutNames == CartNames \cup {"Normal Pocket Watch", "Normal Wormhole Generator"}

(* C19: the Order row that an order post writes carries the name and the     *)
(* address of the User row whose username is in the posting session, and its *)
(* total is the amount the checkout view shows for the same session, which   *)
(* also shows that user.                                                     *)
C19_OrderSnapshot ==
    "username" \in DOMAIN session =>
    \A n \in CheckoutNames : \A c \in QuantityCases :
        \A t \in {After(Req("POST", "/cart/", [item |-> n, quantity |-> c[1]]))} :
            t.resp = Redirect("/cart/") =>
            \A view \in {Handle(t, CheckoutReq)} : \A post \in {Handle(t, PostOrderReq)} :
                /\ Len(post.orders) = Len(orders) + 1
                /\ view.resp.status = 200
                /\ view.resp.context.total[Len(view.resp.context.total) - 2] = "."
                /\ \E i \in 1..Len(users) :
                      /\ users[i].username = session["username"].str
                      /\ post.orders[Len(post.orders)].name = users[i].name
                      /\ post.orders[Len(post.orders)].address = users[i].address
                      /\ view.resp.context.user = <<users[i]>>
                /\ MoneyValue(view.resp.context.total)
                       = post.orders[Len(post.orders)].total

\* reached: the second user of the table is logged in and an order with that
\* user's name and a total above zero is in the table
C19_Witness ==
    /\ Len(users) = 2
    /\ "username" \in DOMAIN session
    /\ session["username"].str = users[2].username
    /\ \E k \in 1..Len(orders) :
          /\ orders[k].name = users[2].name
          /\ orders[k].address = users[2].address
          /\ orders[k].total > 0

----------------------------------------------------------------------------
\* GET /items/
ItemsReq == Req("GET", "/items/", NoForm)

(* C20, as stated: after a catalog view no catalog item has a quantity other *)
(* than zero in the session.                                                 *)
C20_ViewEmptiesCart ==
    "username" \in DOMAIN session =>
    \A t \in {After(ItemsReq)} :
        \A i \in 1..Len(CatalogNames) :
            CatalogNames[i] \in DOMAIN t.session =>
                t.session[CatalogNames[i]].num = 0

(* C20, amended: a catalog view from a logged-in session stores the list of  *)
(* the five catalog names under 'items' and leaves every other session       *)
(* entry, the quantities of the cart among them, exactly as it was.          *)
C20_ViewKeepsCart ==
    "username" \in DOMAIN session =>
    \A t \in {After(ItemsReq)} :
        /\ t.resp.status = 200 /\ t.resp.body = "items.html"
        /\ DOMAIN t.session = DOMAIN session \cup {"items"}
        /\ t.session["items"] = ListVal(CatalogNames)
        /\ \A k \in DOMAIN session \ {"items"} : t.session[k] = session[k]

\* reached: a session that has viewed the catalog and holds a quantity above
\* zero for a catalog item, which a further view leaves there
C20_Witness ==
    /\ "username" \in DOMAIN session /\ "items" \in DOMAIN session
    /\ "Normal Cloak" \in DOMAIN session
    /\ session["Normal Cloak"].num > 0
    /\ After(ItemsReq).session["Normal Cloak"] = session["Normal Cloak"]

----------------------------------------------------------------------------
(* Requests of one session served by concurrent workers.  The session is a *)
(* cookie: a request works on the copy it arrived with, and its response   *)
(* writes that copy back when the handler changed it, over whatever the    *)
(* cookie holds by then.  The tables are shared.  An order post runs in    *)
(* the steps of its two commits.  A request that has answered stays in     *)
(* inflight, so that the outcome can be read against what it did.          *)

\* the state after the requests of a sequence, served one by one
RECURSIVE ServeAll(_, _)
ServeAll(s, reqs) ==
    IF reqs = <<>> THEN s ELSE ServeAll(Handle(s, reqs[1]), Tail(reqs))

\* the state after construction, as a record
Constructed ==
    [users |-> <<>>, items |-> <<>>, orders |-> <<>>, order_items |-> <<>>,
     session |-> EmptySession, resp |-> NoResponse]

\* a user has registered and logged in; then the catalog was viewed or not,
\* and the cart is empty or holds two cloaks
LoggedInSessions ==
    LET alice == Form("alice", "Alice", "a@x", "1 Elm St", "4111", "pw-a", "pw-a")
        enter == << Req("POST", "/users/", alice),
                    Req("POST", "/login/", [username |-> "alice", password |-> "pw-a"]) >>
        view == << Req("GET", "/items/", NoForm) >>
        fill == << Req("POST", "/cart/", [item |-> "Normal Cloak", quantity |-> <<"2">>]) >>
    IN { ServeAll(Constructed, enter \o v \o f) : v \in {<<>>, view}, f \in {<<>>, fill} }

InitWorkers ==
    \E s \in LoggedInSessions :
        /\ users = s.users
        /\ items = s.items
        /\ orders = s.orders
        /\ order_items = s.order_items
        /\ session = s.session
        /\ inflight = <<>>
        /\ uow = UOWTransaction

\* a request in flight: the session it arrived with (snap), its own copy of
\* it (sess), and for an order post the order and the lines it has computed
Worker(kind, form, sess) ==
    [kind |-> kind, pc |-> "begun", form |-> form, snap |-> sess, sess |-> sess,
     order |-> <<>>, lines |-> <<>>]

\* the cart names the concurrent additions draw on
WorkerForms ==
    { [item |-> n, quantity |-> q] :
        n \in {"Normal Cloak", "Normal Helmet"}, q \in {<<"2">>, <<"3">>} }

\* the response writes the worker's session to the cookie when it was modified
save_session(s, sess, modified) ==
    IF modified THEN [s EXCEPT !.session = sess] ELSE s

\* add_to_cart that works on the cookie as it is when the request answers
add_to_cart_finish_atomic(s, p) ==
    LET t == add_to_cart(s, p.form)
    IN IF t.resp.status = 500
       THEN [s |-> s, p |-> [p EXCEPT !.pc = "failed"]]
       ELSE [s |-> save_session(s, t.session, TRUE),
             p |-> [p EXCEPT !.pc = "done", !.sess = t.session]]

\* add_to_cart on the worker's copy of the session, and its response
add_to_cart_finish(s, p) ==
    LET t == add_to_cart([s EXCEPT !.session = p.sess], p.form)
    IN IF t.resp.status = 500
       THEN [s |-> s, p |-> [p EXCEPT !.pc = "failed"]]
       ELSE [s |-> save_session(s, t.session, TRUE),
             p |-> [p EXCEPT !.pc = "done", !.sess = t.session]]

\* db.session.add(order)
add_order(s, order) == [s EXCEPT !.orders = Append(@, order)]

\* an order post that writes the Order and its OrderItem rows in one commit
post_order_single_commit(s, p) ==
    LET user == first_user(s.users, p.sess["username"].str)
        lines == cart_lines([s EXCEPT !.session = p.sess])
    IN IF lines_raise(lines) \/ user = <<>>
       THEN [s |-> s, p |-> [p EXCEPT !.pc = "failed"]]
       ELSE LET order == [id |-> Len(s.orders) + 1, name |-> user[1].name,
                          address |-> user[1].address, total |-> lines_total(lines)]
            IN [s |-> commit_order(s, order,
                                   order_item_rows(lines, order.id, Len(s.order_items))),
                p |-> [p EXCEPT !.pc = "order_committed", !.order = <<order>>,
                                !.lines = lines]]

\* post_order up to its first commit: the user, the lines and the total are
\* read, the Order is added and committed
post_order_first_commit(s, p) ==
    LET user == first_user(s.users, p.sess["username"].str)
        lines == cart_lines([s EXCEPT !.session = p.sess])
    IN IF lines_raise(lines) \/ user = <<>>
       THEN [s |-> s, p |-> [p EXCEPT !.pc = "failed"]]
       ELSE LET order == [id |-> Len(s.orders) + 1, name |-> user[1].name,
                          address |-> user[1].address, total |-> lines_total(lines)]
            IN [s |-> add_order(s, order),
                p |-> [p EXCEPT !.pc = "order_committed", !.order = <<order>>,
                                !.lines = lines]]

\* the OrderItem rows are added and committed
post_order_second_commit(s, p) ==
    [s |-> [s EXCEPT !.order_items =
                @ \o order_item_rows(p.lines, p.order[1].id, Len(@))],
     p |-> [p EXCEPT !.pc = "items_committed"]]

\* the second commit raises: the request ends in a 500
post_order_commit_raises(s, p) ==
    [s |-> s, p |-> [p EXCEPT !.pc = "failed"]]

\* the loop that pops the catalog names, and the response: pop marks the
\* session modified when the name was in it
post_order_finish(s, p) ==
    IF "items" \notin DOMAIN p.sess \/ p.sess["items"].kind # "list"
    THEN [s |-> s, p |-> [p EXCEPT !.pc = "failed"]]
    ELSE LET names == p.sess["items"].list
             popped == pop_all(p.sess, names)
         IN [s |-> save_session(s, popped,
                                \E i \in 1..Len(names) : names[i] \in DOMAIN p.sess),
             p |-> [p EXCEPT !.pc = "done", !.sess = popped]]

\* a step of worker i took the shared state to t.s and the worker to t.p
Stepped(i, t) ==
    /\ users' = t.s.users
    /\ items' = t.s.items
    /\ orders' = t.s.orders
    /\ order_items' = t.s.order_items
    /\ session' = t.s.session
    /\ inflight' = [inflight EXCEPT ![i] = t.p]
    /\ UNCHANGED uow

\* a worker is free and the gate lets the request through
CanArrive(path, form) ==
    /\ Len(inflight) < MaxInFlight
    /\ ~check_login(State, Req("POST", path, form))

BeginAdd ==
    \E f \in WorkerForms :
        /\ CanArrive("/cart/", f)
        /\ inflight' = Append(inflight, Worker("add", f, session))
        /\ UNCHANGED <<users, items, orders, order_items, session, uow>>

FinishAdd ==
    \E i \in 1..Len(inflight) :
        /\ inflight[i].kind = "add" /\ inflight[i].pc = "begun"
        /\ Stepped(i, add_to_cart_finish(State, inflight[i]))

BeginPost ==
    LET f == [item |-> "", quantity |-> <<>>]
    IN /\ CanArrive("/orders/", f)
       /\ inflight' = Append(inflight, Worker("post", f, session))
       /\ UNCHANGED <<users, items, orders, order_items, session, uow>>

PostFirstCommit ==
    \E i \in 1..Len(inflight) :
        /\ inflight[i].kind = "post" /\ inflight[i].pc = "begun"
        /\ Stepped(i, post_order_first_commit(State, inflight[i]))

PostSecondCommit ==
    \E i \in 1..Len(inflight) :
        /\ inflight[i].kind = "post" /\ inflight[i].pc = "order_committed"
        /\ Stepped(i, post_order_second_commit(State, inflight[i]))

PostCommitRaises ==
    \E i \in 1..Len(inflight) :
        /\ inflight[i].kind = "post" /\ inflight[i].pc = "order_committed"
        /\ Stepped(i, post_order_commit_raises(State, inflight[i]))

FinishPost ==
    \E i \in 1..Len(inflight) :
        /\ inflight[i].kind = "post" /\ inflight[i].pc = "items_committed"
        /\ Stepped(i, post_order_finish(State, inflight[i]))

\* the order listing, served whole between the steps of the others
ListOrders ==
    LET t == Handle(State, Req("GET", "/orders/", NoForm))
    IN /\ t.resp.status = 200
       /\ UNCHANGED vars

NextWorkers ==
    \/ BeginAdd \/ FinishAdd \/ BeginPost \/ PostFirstCommit
    \/ PostSecondCommit \/ PostCommitRaises \/ FinishPost \/ ListOrders

SpecWorkers == InitWorkers /\ [][NextWorkers]_vars

----------------------------------------------------------------------------
\* the OrderItem rows that carry an order's id
RowsOf(order_id) == SelectSeq(order_items, LAMBDA oi : oi.order_id = order_id)

\* what the order listing, served now, shows for the order of that id
ListedOrder(order_id) == After(OrdersReq).resp.context.orders[order_id]

\* the worker's copy of the session still holds the cart its lines came from
CartKept(p) ==
    /\ p.sess = p.snap
    /\ \A k \in 1..Len(p.lines) :
          /\ p.lines[k].item.name \in DOMAIN p.sess
          /\ p.sess[p.lines[k].item.name] = p.lines[k].qty

(* C21: an order post commits its Order first, its OrderItem rows in a       *)
(* second commit, and empties the cart of its session only after both.       *)
(* Between the commits the Order is in the table with its full total and     *)
(* none of its rows, and an order listing served then shows it so; a post    *)
(* that fails after the first commit leaves its Order in the table and the   *)
(* cart in its session.                                                      *)
C21_EffectOrder ==
    \A i \in 1..Len(inflight) :
        LET p == inflight[i]
        IN (p.kind = "post" /\ p.order # <<>>) =>
           LET o == p.order[1]
           IN /\ o.id \in 1..Len(orders) /\ orders[o.id] = o
              /\ o.total = lines_total(p.lines)
              /\ p.pc \in {"order_committed", "items_committed", "done", "failed"}
              /\ p.pc = "order_committed" =>
                    /\ RowsOf(o.id) = <<>>
                    /\ ListedOrder(o.id).order = o
                    /\ ListedOrder(o.id).items = <<>>
                    /\ CartKept(p)
              /\ p.pc = "items_committed" =>
                    /\ Len(RowsOf(o.id)) = Len(p.lines)
                    /\ CartKept(p)
              /\ p.pc = "failed" =>
                    /\ CartKept(p)
                    /\ Len(RowsOf(o.id)) \in {0, Len(p.lines)}
              /\ p.pc = "done" =>
                    /\ Len(RowsOf(o.id)) = Len(p.lines)
                    /\ \A k \in 1..Len(p.lines) :
                          p.lines[k].item.name \notin DOMAIN p.sess

\* reached: an order with a total above zero is committed, its rows are not,
\* and the listing shows it without items
C21_Witness ==
    \E i \in 1..Len(inflight) :
        /\ inflight[i].kind = "post" /\ inflight[i].pc = "order_committed"
        /\ inflight[i].lines # <<>>
        /\ inflight[i].order[1].total > 0
        /\ RowsOf(inflight[i].order[1].id) = <<>>
        /\ ListedOrder(inflight[i].order[1].id).items = <<>>

\* reached: a post failed after its first commit: the Order with its total is
\* in the table without rows and the session's cart is as it was
C21_FailedAfterCommit ==
    \E i \in 1..Len(inflight) :
        /\ inflight[i].kind = "post" /\ inflight[i].pc = "failed"
        /\ inflight[i].order # <<>>
        /\ inflight[i].order[1].total > 0
        /\ RowsOf(inflight[i].order[1].id) = <<>>
        /\ CartNonEmpty(session)

----------------------------------------------------------------------------
\* the views that only read: checkout, cart and order listing
ReadOnlyViews ==
    { CheckoutReq, Req("GET", "/cart/", NoForm), OrdersReq }

\* two states with the same tables and session
SameData(a, b) == [a EXCEPT !.resp = NoResponse] = [b EXCEPT !.resp = NoResponse]

(* C22: for one session and one Item table the order post writes one        *)
(* OrderItem per line of the checkout view, with that line's item and       *)
(* quantity and in the same order, and its Order has the total the view     *)
(* shows; the checkout view, the cart view and the order listing leave the  *)
(* session and every table as they were.                                    *)
C22_ViewAndPostAgree ==
    "username" \in DOMAIN session =>
    \A n \in CheckoutNames : \A c \in QuantityCases :
        \A t \in {After(Req("POST", "/cart/", [item |-> n, quantity |-> c[1]]))} :
            /\ \A r \in ReadOnlyViews : SameData(Handle(t, r), t)
            /\ t.resp = Redirect("/cart/") =>
               \A view \in {Handle(t, CheckoutReq)} : \A post \in {Handle(t, PostOrderReq)} :
                   LET shown == view.resp.context.lines
                       rows == SubSeq(post.order_items, Len(order_items) + 1,
                                      Len(post.order_items))
                   IN /\ view.resp.status = 200
                      /\ Len(post.orders) = Len(orders) + 1
                      /\ Len(rows) = Len(shown)
                      /\ \A k \in 1..Len(shown) :
                            /\ rows[k].item_id = shown[k].item.id
                            /\ rows[k].quantity = shown[k].qty.num
                            /\ rows[k].order_id = Len(orders) + 1
                      /\ view.resp.context.total
                            = FormatMoney(post.orders[Len(post.orders)].total)

\* reached: a cart with two catalog items, which the checkout view shows as
\* two lines and an order post writes as two rows
C22_Witness ==
    /\ "username" \in DOMAIN session
    /\ Len(After(CheckoutReq).resp.context.lines) = 2
    /\ Len(After(PostOrderReq).order_items) = Len(order_items) + 2

----------------------------------------------------------------------------
\* the quantity a session holds under a name, 0 when the name is not in it
Held(sess, n) == IF n \in DOMAIN sess THEN sess[n].num ELSE 0

\* the quantity an addition in flight asks for
Asked(p) == ParseInt(p.form.quantity)

\* workers i and j started from one session snapshot, both have answered,
\* and no other worker has
RacedPair(i, j) ==
    /\ i # j
    /\ inflight[i].pc = "done" /\ inflight[j].pc = "done"
    /\ inflight[i].snap = inflight[j].snap
    /\ \A k \in 1..Len(inflight) : k \notin {i, j} => inflight[k].pc # "done"

(* C23: requests of one session that start from the same session snapshot   *)
(* race: of two additions to one item, the session ends as the one that     *)
(* answered last left it, with the snapshot's quantity plus that addition    *)
(* alone, which is less than with both; of an addition and an order post,   *)
(* the session ends either as the addition left it (the addition survives,  *)
(* and the ordered quantities are back in the cart) or as the post left it  *)
(* (the addition is lost).                                                   *)
C23_CartRaces ==
    \A i, j \in 1..Len(inflight) :
        RacedPair(i, j) =>
        LET p == inflight[i]
            q == inflight[j]
            n == p.form.item
        IN /\ (p.kind = "add" /\ q.kind = "add" /\ q.form.item = n) =>
                 /\ session \in {p.sess, q.sess}
                 /\ Held(session, n) \in {Held(p.snap, n) + Asked(p),
                                          Held(p.snap, n) + Asked(q)}
                 /\ Held(session, n) < Held(p.snap, n) + Asked(p) + Asked(q)
           /\ (p.kind = "add" /\ q.kind = "post") =>
                 \/ /\ session = p.sess
                    /\ Held(session, n) = Held(p.snap, n) + Asked(p)
                    /\ \A k \in 1..Len(q.lines) :
                          Held(session, q.lines[k].item.name) # 0
                 \/ /\ session = q.sess /\ q.sess # q.snap
                    /\ \A k \in 1..Len(q.lines) :
                          q.lines[k].item.name \notin DOMAIN session
                    /\ Held(session, n) \in {0, Held(p.snap, n)}

\* reached: two additions of 2 and 3 to one item, from one snapshot, have
\* both answered and the session holds less than the snapshot's quantity
\* plus 5
C23_Witness ==
    \E i, j \in 1..Len(inflight) :
        /\ RacedPair(i, j)
        /\ inflight[i].kind = "add" /\ inflight[j].kind = "add"
        /\ inflight[i].form.item = inflight[j].form.item
        /\ Asked(inflight[i]) = 2 /\ Asked(inflight[j]) = 3
        /\ Held(session, inflight[i].form.item)
              < Held(inflight[i].snap, inflight[i].form.item) + 5

\* reached: an addition raced an order post that emptied a cart, and survives
C23_AddSurvives ==
    \E i, j \in 1..Len(inflight) :
        /\ RacedPair(i, j)
        /\ inflight[i].kind = "add" /\ inflight[j].kind = "post"
        /\ inflight[j].sess # inflight[j].snap
        /\ session = inflight[i].sess

\* reached: an addition raced an order post that emptied a cart, and is lost
C23_AddLost ==
    \E i, j \in 1..Len(inflight) :
        /\ RacedPair(i, j)
        /\ inflight[i].kind = "add" /\ inflight[j].kind = "post"
        /\ session = inflight[j].sess
        /\ Held(session, inflight[i].form.item) = 0
        /\ inflight[i].form.item = "Normal Helmet"

----------------------------------------------------------------------------
\* no quantity of the session, no OrderItem quantity and no Order total of
\* the state is below zero
NonNegative(s) ==
    /\ \A k \in DOMAIN s.session :
          s.session[k].kind = "int" => s.session[k].num >= 0
    /\ \A k \in 1..Len(s.order_items) : s.order_items[k].quantity >= 0
    /\ \A k \in 1..Len(s.orders) : s.orders[k].total >= 0

(* C24: cart quantities are never negative: in every reachable state, and   *)
(* after any further addition to the cart, every quantity in the session is *)
(* at least zero, and an order post then writes no OrderItem with a         *)
(* negative quantity and no Order with a negative total.                    *)
C24_NonNegativeQuantities ==
    /\ NonNegative(State)
    /\ "username" \in DOMAIN session =>
       \A n \in CartNames : \A c \in QuantityCases :
           \A t \in {After(Req("POST", "/cart/", [item |-> n, quantity |-> c[1]]))} :
               /\ NonNegative(t)
               /\ NonNegative(Handle(t, PostOrderReq))

----------------------------------------------------------------------------
\* quantities int() does not read: a letter, nothing, a decimal point, a
\* sign alone, a digit and a letter
BadQuantityTexts ==
    { <<"x">>, <<>>, <<"2", ".", "5">>, <<"-">>, <<"2", "x">> }

(* C25: an addition to the cart whose quantity does not read as an integer  *)
(* ends in an uncaught error (a 500) and leaves the session and the tables  *)
(* as they were: a quantity the item has is kept, and an item that is not   *)
(* in the session gets no entry.                                            *)
C25_BadQuantity ==
    "username" \in DOMAIN session =>
    \A n \in CartNames \cup {"username", "items"} : \A q \in BadQuantityTexts :
        \A t \in {After(Req("POST", "/cart/", [item |-> n, quantity |-> q]))} :
            /\ t.resp = ServerError
            /\ SameState(t)
            /\ n \in DOMAIN session => t.session[n] = session[n]
            /\ n \notin DOMAIN session => n \notin DOMAIN t.session

\* reached: a logged-in session that holds a quantity for one name and none
\* for another, where an addition of 'x' to either is answered 500
C25_Witness ==
    /\ "username" \in DOMAIN session
    /\ "Normal Cloak" \in DOMAIN session /\ session["Normal Cloak"].num > 0
    /\ "Normal Helmet" \notin DOMAIN session
    /\ \A n \in {"Normal Cloak", "Normal Helmet"} :
          After(Req("POST", "/cart/", [item |-> n, quantity |-> <<"x">>])).resp
              = ServerError

----------------------------------------------------------------------------
\* GET /cart/
CartReq == Req("GET", "/cart/", NoForm)

\* the names a cart request can carry: the cart's names and the two keys the
\* session uses for itself
SessionNames == CartNames \cup {"username", "items"}

\* one cart request, or none (a request that changes nothing)
CartRequests ==
    { Req("POST", "/cart/", [item |-> n, quantity |-> c[1]]) :
        n \in SessionNames, c \in QuantityCases }
    \cup { Req("DELETE", "/cart/", [item |-> n]) : n \in SessionNames }
    \cup { Req("GET", "/nowhere/", NoForm) }

(* C26: whenever the cart view answers 200, what it shows is the list of    *)
(* the five catalog names that a catalog view stored in the session,        *)
(* whatever was added to or removed from the cart; and in a session that    *)
(* logged in after a logout and has not viewed the catalog, the cart view   *)
(* ends in an error instead of showing an empty cart, also after a cart     *)
(* request.                                                                 *)
C26_CartView ==
    /\ \A e \in CartRequests : \A t \in {After(e)} : \A view \in {Handle(t, CartReq)} :
          view.resp.status = 200 =>
              /\ view.resp.context.names = CatalogNames
              /\ "items" \in DOMAIN t.session
              /\ t.session["items"] = ListVal(CatalogNames)
    /\ \A f \in LoginForms :
          \A t \in {Handle(Handle(State, LogoutReq), Req("POST", "/login/", f))} :
              t.resp = Redirect("/items/") =>
              \A e \in CartRequests : \A u \in {Handle(t, e)} :
                  "username" \in DOMAIN u.session =>
                      Handle(u, CartReq).resp = ServerError

\* reached: the catalog is seeded, and a session that logged in since and
\* filled a cart has no name list: its cart view ends in an error
C26_Witness ==
    /\ "username" \in DOMAIN session /\ "items" \notin DOMAIN session
    /\ items # <<>>
    /\ CartNonEmpty(session)
    /\ After(CartReq).resp = ServerError

----------------------------------------------------------------------------
\* the entries of a session that are not the cart: who is logged in, and the
\* catalog name list
SameIdentity(a, b) ==
    \A k \in {"username", "items"} :
        /\ k \in DOMAIN a <=> k \in DOMAIN b
        /\ k \in DOMAIN a => a[k] = b[k]

(* C27: a cart add or a cart remove from a logged-in session, whatever item *)
(* name it carries ('username' and 'items' among them), leaves the          *)
(* session's 'username' and 'items' entries as they were.                   *)
C27_CartKeepsIdentity ==
    "username" \in DOMAIN session =>
    \A e \in CartRequests : SameIdentity(After(e).session, session)

----------------------------------------------------------------------------
(* C28: a request from a session without 'username' creates no Order and no *)
(* OrderItem row.  The gate lets POST /orders/ through, the path being      *)
(* allow-listed for the listing, and the handler then ends in an error      *)
(* before it writes anything: nothing is redirected and nothing is added.   *)
C28_NoAnonymousOrder ==
    "username" \notin DOMAIN session =>
    /\ \A r \in Requests \cup CartRequests :
          \A t \in {After(r)} :
              t.orders = orders /\ t.order_items = order_items
    /\ ~check_login(State, PostOrderReq)
    /\ After(PostOrderReq).resp = ServerError
    /\ SameState(After(PostOrderReq))

\* reached: nobody is logged in, users, catalog and orders exist, and an
\* order post passes the gate
C28_Witness ==
    /\ "username" \notin DOMAIN session
    /\ users # <<>> /\ items # <<>> /\ orders # <<>>
    /\ ~check_login(State, PostOrderReq)
    /\ After(PostOrderReq).resp.status = 500

----------------------------------------------------------------------------
\* the session names nobody, or a user who has a row
NamesAUser(s) ==
    "username" \in DOMAIN s.session =>
        /\ s.session["username"].kind = "str"
        /\ has_user(s.users, s.session["username"].str)

(* C29: in every reachable state a 'username' in the session is the         *)
(* username of a User row, and every further request keeps it so: a login   *)
(* stores the name of a row it found, rows are never deleted, and a cart    *)
(* request with the item name 'username' cannot put another value under the *)
(* key.                                                                     *)
C29_SessionUserExists ==
    /\ NamesAUser(State)
    /\ \A r \in Requests \cup CartRequests :
          \A t \in {After(r)} :
              /\ NamesAUser(t)
              /\ IsPrefix(users, t.users)
              /\ (r \in CartRequests /\ "username" \in DOMAIN session
                    /\ "username" \in DOMAIN t.session)
                   => t.session["username"] = session["username"]

\* reached: the second user of the table is logged in with a cart, and the
\* first has a row as well
C29_Witness ==
    /\ Len(users) = 2
    /\ "username" \in DOMAIN session
    /\ session["username"].str = users[2].username
    /\ CartNonEmpty(session)
    /\ orders # <<>>

----------------------------------------------------------------------------
(* C30: every Order row has at least one OrderItem row, and an order post   *)
(* from a session whose cart gives no line creates no Order.                *)
C30_OrderHasItems ==
    /\ \A k \in 1..Len(orders) :
          \E j \in 1..Len(order_items) : order_items[j].order_id = orders[k].id
    /\ ("username" \in DOMAIN session /\ cart_lines(State) = <<>>)
          => After(PostOrderReq).orders = orders

----------------------------------------------------------------------------
(* models.py: Order.items = relationship('OrderItem', backref='order',     *)
(* cascade='all, delete-orphan').  No handler deletes an Order; the        *)
(* operator is what db.session.delete(order); db.session.commit() does     *)
(* to the two tables under that declaration.                               *)

\* the delete of the Order row of that id, cascaded to its OrderItem rows
delete_order(s, order_id) ==
    [s EXCEPT !.orders = SelectSeq(@, LAMBDA o : o.id # order_id),
              !.order_items = SelectSeq(@, LAMBDA row : row.order_id # order_id)]

RowsOfOrder(rows, order_id) == {i \in 1..Len(rows) : rows[i].order_id = order_id}

----------------------------------------------------------------------------
(* C32: cart isolation between users.  From any reachable state the        *)
(* session is emptied by a logout, user A logs in and adds a quantity, and *)
(* user B then logs in: every quantity of the session was added while A    *)
(* was the logged-in user.                                                 *)

\* the session without its 'username' entry
CartPart(sess) == [k \in DOMAIN sess \ {"username"} |-> sess[k]]

\* a, b: login forms; f: the form of an addition to the cart.  The states
\* after the logout, A's login, A's addition and B's login
AfterSwitch(a, f, b) ==
    LET s1 == After(LogoutReq)
        s2 == Handle(s1, Req("POST", "/login/", a))
        s3 == Handle(s2, Req("POST", "/cart/", f))
        s4 == Handle(s3, Req("POST", "/login/", b))
    IN [a_in |-> LoggedIn(s2.session) /\ s2.session["username"] = StrVal(a.username),
        b_in |-> LoggedIn(s4.session) /\ s4.session["username"] = StrVal(b.username),
        added |-> s3, switched |-> s4]

\* C32: the login of B leaves the cart as it was, and the order B then
\* posts, carrying B's name and address, has no line from the quantities
\* added while A was logged in: no OrderItem row is written.
C32_CartIsolation ==
    \A a, b \in LoginForms, f \in AddForms :
        \A w \in {AfterSwitch(a, f, b)} :
            (w.a_in /\ w.b_in /\ a.username # b.username) =>
                /\ CartPart(w.switched.session) = CartPart(w.added.session)
                /\ \A t \in {Handle(w.switched, PostOrderReq)} :
                      \A k \in 1..Len(t.orders) :
                          k > Len(orders) =>
                              RowsOfOrder(t.order_items, t.orders[k].id) = {}

\* the part of C32 that holds: a successful login changes nothing of the
\* session but 'username'
C32_LoginKeepsCart ==
    \A b \in LoginForms :
        \A t \in {After(Req("POST", "/login/", b))} :
            LoggedIn(t.session) /\ t.session["username"] = StrVal(b.username)
                /\ t.resp = Redirect("/items/")
                    => CartPart(t.session) = CartPart(session)

----------------------------------------------------------------------------
(* Concurrent catalog views.  app.run() serves each request in a thread of *)
(* its own; add_items runs add_pocket_watch .. add_wormhole_generator in   *)
(* turn, and each of them is a query for a row of the name followed, when  *)
(* there is none, by an insert and a commit.  Other requests' commits fall *)
(* between the steps.  Item.name and Item.image are unique=True.           *)

\* a catalog view in flight: n is the seed item it is at; pc is "check"
\* before the query, "insert" between the query and the commit, "seeded"
\* when add_items has returned
Viewer(sess) == [kind |-> "view", pc |-> "check", n |-> 1, snap |-> sess, sess |-> sess]

\* the return of add_<item>: on to the next one, or add_items returns
seed_next(p) ==
    IF p.n = Len(SeedItems) THEN [p EXCEPT !.pc = "seeded"]
    ELSE [p EXCEPT !.pc = "check", !.n = @ + 1]

\* if Item.query.filter_by(name=name).first(): return name
seed_check(s, p) ==
    IF has_item(s.items, SeedItems[p.n].name)
    THEN [s |-> s, p |-> seed_next(p)]
    ELSE [s |-> s, p |-> [p EXCEPT !.pc = "insert"]]

\* the insert of the row breaks a unique constraint of Item
item_insert_raises(table, seed) ==
    \E i \in 1..Len(table) :
        table[i].name = seed.name \/ table[i].image = seed.image

\* an insert into a table without unique constraints
seed_insert_unconstrained(s, p) ==
    LET seed == SeedItems[p.n]
    IN [s |-> [s EXCEPT !.items = Append(@, [id |-> Len(@) + 1, name |-> seed.name,
                                            image |-> seed.image, price |-> seed.price])],
        p |-> seed_next(p)]

\* db.session.add(item); db.session.commit(); return name.  The
\* IntegrityError of the commit is caught nowhere: the view ends in a 500
seed_insert(s, p) ==
    LET seed == SeedItems[p.n]
    IN IF item_insert_raises(s.items, seed)
       THEN [s |-> s, p |-> [p EXCEPT !.pc = "failed"]]
       ELSE [s |-> [s EXCEPT !.items =
                        Append(@, [id |-> Len(@) + 1, name |-> seed.name,
                                   image |-> seed.image, price |-> seed.price])],
             p |-> seed_next(p)]

\* session['items'] = <the names>; items = Item.query.all(); the page, and
\* the cookie written with the response
get_items_finish(s, p) ==
    LET names == [n \in 1..Len(SeedItems) |-> SeedItems[n].name]
        sess == Put(p.sess, "items", ListVal(names))
    IN [s |-> save_session(s, sess, TRUE),
        p |-> [p EXCEPT !.pc = "done", !.sess = sess]]

BeginView ==
    /\ Len(inflight) < MaxInFlight
    /\ ~check_login(State, Req("GET", "/items/", NoForm))
    /\ inflight' = Append(inflight, Viewer(session))
    /\ UNCHANGED <<users, items, orders, order_items, session, uow>>

SeedCheck ==
    \E i \in 1..Len(inflight) :
        /\ inflight[i].pc = "check"
        /\ Stepped(i, seed_check(State, inflight[i]))

SeedInsert ==
    \E i \in 1..Len(inflight) :
        /\ inflight[i].pc = "insert"
        /\ ~item_insert_raises(items, SeedItems[inflight[i].n])
        /\ Stepped(i, seed_insert(State, inflight[i]))

SeedInsertRaises ==
    \E i \in 1..Len(inflight) :
        /\ inflight[i].pc = "insert"
        /\ item_insert_raises(items, SeedItems[inflight[i].n])
        /\ Stepped(i, seed_insert(State, inflight[i]))

FinishView ==
    \E i \in 1..Len(inflight) :
        /\ inflight[i].pc = "seeded"
        /\ Stepped(i, get_items_finish(State, inflight[i]))

NextSeed ==
    \/ BeginView \/ SeedCheck \/ SeedInsert \/ SeedInsertRaises \/ FinishView

SpecSeed == InitWorkers /\ [][NextSeed]_vars

\* C33: under every interleaving of concurrent catalog views the Item table
\* holds no two rows of one name and at most five rows; a view that passed
\* the check for a name another view has inserted since ends in an error
\* and adds nothing.
C33_SeedRace ==
    /\ \A i, j \in 1..Len(items) : items[i].name = items[j].name => i = j
    /\ Len(items) <= Len(SeedItems)
    /\ \A i \in 1..Len(items) : \E n \in 1..Len(SeedItems) :
          items[i].name = SeedItems[n].name

\* reached: two views passed the check for one name before either
\* inserted, one has inserted since and the other has failed on its insert
C33_Witness ==
    \E i, j \in 1..Len(inflight) :
        /\ inflight[i].pc = "failed"
        /\ inflight[j].pc # "failed" /\ inflight[j].n > inflight[i].n
        /\ has_item(items, SeedItems[inflight[i].n].name)

\* reached: two views are both between the check and the insert of the
\* first item, the table being empty
C33_BothPassed ==
    /\ items = <<>>
    /\ \E i, j \in 1..Len(inflight) :
          i # j /\ inflight[i].pc = "insert" /\ inflight[j].pc = "insert"
               /\ inflight[i].n = 1 /\ inflight[j].n = 1

----------------------------------------------------------------------------
(* sqlalchemy/orm/unitofwork.py: the flush engine.                         *)
(*                                                                         *)
(* The mapping the flush works on is an input: a joined hierarchy Base with *)
(* a descendant Sub, and a mapper Child; a one-to-many relationship         *)
(* Base.children (inherited by Sub), its many-to-one reverse Child.parent,  *)
(* and the key-switch detector the many-to-one leaves on its target         *)
(* mappers.  Four instance states, one of which the session does not        *)
(* contain.                                                                 *)

Mappers == {"Base", "Sub", "Child"}

\* mapper.base_mapper
base_mapper(mapper) == IF mapper = "Sub" THEN "Base" ELSE mapper

\* mapper.self_and_descendants
self_and_descendants(mapper) == IF mapper = "Base" THEN {"Base", "Sub"} ELSE {mapper}

InstanceStates == {"b1", "s1", "c1", "c2"}

\* state.manager.mapper
state_mapper(state) ==
    CASE state = "b1" -> "Base"
      [] state = "s1" -> "Sub"
      [] OTHER -> "Child"

\* self.session._contains_state(state)
contains_state(state) == state \in {"b1", "s1", "c1"}

\* the Preprocess keys that dep.per_property_preprocessors(self) registers,
\* for the dependency processors and the relationships of the mapper, in
\* the order of the two loops of _per_mapper_flush_actions
per_property_preprocessors(mapper) ==
    IF mapper = "Child"
    THEN << [processor |-> "Child.parent", fromparent |-> TRUE] >>
    ELSE << [processor |-> "Child.parent.keyswitch", fromparent |-> FALSE],
            [processor |-> "Base.children", fromparent |-> TRUE] >>

\* IterateMappersMixin._mappers: the mappers a Preprocess looks through
preprocess_mappers(processor, fromparent) ==
    IF processor = "Child.parent" THEN self_and_descendants("Child")
    ELSE self_and_descendants("Base")

\* PostSortRec keys
SaveUpdateAll(mapper) == [cls |-> "SaveUpdateAll", mapper |-> mapper, state |-> ""]

DeleteAll(mapper) == [cls |-> "DeleteAll", mapper |-> mapper, state |-> ""]

SaveUpdateState(state) ==
    [cls |-> "SaveUpdateState", mapper |-> base_mapper(state_mapper(state)),
     state |-> state]

DeleteState(state) ==
    [cls |-> "DeleteState", mapper |-> base_mapper(state_mapper(state)),
     state |-> state]

\* d[k] = v on a dictionary
SetItem(d, k, v) == [x \in DOMAIN d \cup {k} |-> IF x = k THEN v ELSE d[x]]

\* register_preprocessor: a Preprocess for the key unless there is one
register_preprocessor(u, processor, fromparent) ==
    IF \E i \in 1..Len(u.presort_actions) :
           /\ u.presort_actions[i].processor = processor
           /\ u.presort_actions[i].fromparent = fromparent
    THEN u
    ELSE [u EXCEPT !.presort_actions =
              Append(@, [processor |-> processor, fromparent |-> fromparent,
                         processed |-> {}, setup_flush_actions |-> FALSE])]

RECURSIVE register_preprocessors(_, _, _)
register_preprocessors(u, keys, n) ==
    IF n = 0 THEN u
    ELSE register_preprocessor(register_preprocessors(u, keys, n - 1),
                               keys[n].processor, keys[n].fromparent)

\* _per_mapper_flush_actions without the dependency of the deletes on the
\* saves
per_mapper_flush_actions_unordered(u, mapper) ==
    LET saves == SaveUpdateAll(base_mapper(mapper))
        deletes == DeleteAll(base_mapper(mapper))
        keys == per_property_preprocessors(mapper)
    IN register_preprocessors(
           [u EXCEPT !.postsort_actions = @ \cup {saves, deletes}],
           keys, Len(keys))

\* _per_mapper_flush_actions: the SaveUpdateAll and DeleteAll of the base
\* mapper, the second depending on the first, and the preprocessors
per_mapper_flush_actions(u, mapper) ==
    LET saves == SaveUpdateAll(base_mapper(mapper))
        deletes == DeleteAll(base_mapper(mapper))
        keys == per_property_preprocessors(mapper)
    IN register_preprocessors(
           [u EXCEPT !.postsort_actions = @ \cup {saves, deletes},
                     !.dependencies = @ \cup {<<saves, deletes>>}],
           keys, Len(keys))

\* register_object that stores the given (isdelete, listonly) every time
register_object_overwriting(u, state, isdelete, listonly, cancel_delete) ==
    IF ~contains_state(state) THEN [uow |-> u, ret |-> FALSE]
    ELSE LET mapper == state_mapper(state)
             v == IF mapper \notin DOMAIN u.mappers
                  THEN per_mapper_flush_actions(u, mapper) ELSE u
             had == IF mapper \in DOMAIN v.mappers THEN v.mappers[mapper] ELSE {}
         IN [uow |-> [v EXCEPT !.mappers = SetItem(@, mapper, had \cup {state}),
                               !.states = SetItem(@, state, <<isdelete, listonly>>)],
             ret |-> TRUE]

\* register_object: the unit of work it leaves and the value it returns
register_object(u, state, isdelete, listonly, cancel_delete) ==
    IF ~contains_state(state) THEN [uow |-> u, ret |-> FALSE]
    ELSE IF state \notin DOMAIN u.states
    THEN LET mapper == state_mapper(state)
             v == IF mapper \notin DOMAIN u.mappers
                  THEN per_mapper_flush_actions(u, mapper) ELSE u
             had == IF mapper \in DOMAIN v.mappers THEN v.mappers[mapper] ELSE {}
         IN [uow |-> [v EXCEPT !.mappers = SetItem(@, mapper, had \cup {state}),
                               !.states = SetItem(@, state, <<isdelete, listonly>>)],
             ret |-> TRUE]
    ELSE IF ~listonly /\ (isdelete \/ cancel_delete)
    THEN [uow |-> [u EXCEPT !.states = SetItem(@, state, <<isdelete, FALSE>>)],
          ret |-> TRUE]
    ELSE [uow |-> u, ret |-> TRUE]

\* the shop is left alone by the steps of a flush
ShopUnchanged == UNCHANGED <<users, items, orders, order_items, session, inflight>>

\* Session.flush and the cascades call register_object with a state and
\* flags of their choosing
RegisterObject ==
    \E state \in InstanceStates, isdelete, listonly, cancel_delete \in BOOLEAN :
        /\ uow.pc = "register"
        /\ contains_state(state)
        /\ uow' = register_object(uow, state, isdelete, listonly, cancel_delete).uow
        /\ ShopUnchanged

RegisterObjectRefused ==
    \E state \in InstanceStates, isdelete, listonly, cancel_delete \in BOOLEAN :
        /\ uow.pc = "register"
        /\ ~contains_state(state)
        /\ uow' = register_object(uow, state, isdelete, listonly, cancel_delete).uow
        /\ ShopUnchanged

NextRegisterObject == RegisterObject \/ RegisterObjectRefused

SpecRegisterObject == Init /\ [][NextRegisterObject]_vars

Recorded(u, state) == state \in DOMAIN u.states

\* the entries of the states other than the one given are as they were
OthersKept(u, v, state) ==
    /\ DOMAIN v.states \ {state} = DOMAIN u.states \ {state}
    /\ \A s \in DOMAIN u.states \ {state} : v.states[s] = u.states[s]

\* C35: register_object, for every state and every setting of its flags: a
\* state the session does not contain is refused (False, the unit of work
\* as it was); a state not yet recorded is recorded under its mapper with
\* the given (isdelete, listonly), and True is returned; for a recorded
\* state True is returned and the entry changes only when listonly is
\* false and isdelete or cancel_delete is set, and is then (isdelete,
\* False); no entry with listonly False gets listonly True.
C35_RegisterObject ==
    \A state \in InstanceStates, isdelete, listonly, cancel_delete \in BOOLEAN :
        \A r \in {register_object(uow, state, isdelete, listonly, cancel_delete)} :
            /\ ~contains_state(state) => (~r.ret /\ r.uow = uow)
            /\ (contains_state(state) /\ ~Recorded(uow, state)) =>
                  /\ r.ret
                  /\ Recorded(r.uow, state)
                  /\ r.uow.states[state] = <<isdelete, listonly>>
                  /\ state_mapper(state) \in DOMAIN r.uow.mappers
                  /\ state \in r.uow.mappers[state_mapper(state)]
            /\ (contains_state(state) /\ Recorded(uow, state)) =>
                  /\ r.ret
                  /\ r.uow.mappers = uow.mappers
                  /\ r.uow.states[state] =
                        IF ~listonly /\ (isdelete \/ cancel_delete)
                        THEN <<isdelete, FALSE>> ELSE uow.states[state]
            /\ OthersKept(uow, r.uow, state)
            /\ \A s \in DOMAIN uow.states :
                  ~uow.states[s][2] => ~r.uow.states[s][2]

\* reached: one state is recorded as a delete to be flushed, another as
\* listonly, and a third is not recorded
C35_Witness ==
    /\ Recorded(uow, "b1") /\ uow.states["b1"] = <<TRUE, FALSE>>
    /\ Recorded(uow, "c1") /\ uow.states["c1"] = <<FALSE, TRUE>>
    /\ ~Recorded(uow, "s1")

----------------------------------------------------------------------------
(* unitofwork.py: the presort loop of _generate_actions and                *)
(* Preprocess.execute.  What the dependency processor does in              *)
(* presort_deletes and presort_saves is not in this file: it registers     *)
(* further objects (cascades), any it chooses; prop_has_changes answers    *)
(* either way.  presorted and repeated record which states each Preprocess *)
(* has handed to its processor, and which of them more than once.          *)

\* one call of register_object
RegisterCalls ==
    [state : InstanceStates, isdelete : BOOLEAN, listonly : BOOLEAN,
     cancel_delete : BOOLEAN]

\* the calls a cascade makes for the objects related to one it handles: a
\* save or a delete of an object of the session
CascadeCalls ==
    {c \in RegisterCalls : contains_state(c.state) /\ ~c.listonly /\ ~c.cancel_delete}

\* the calls of register_object one Preprocess.execute leads to: none, any
\* one call, or the calls of a cascade for two objects
Cascades ==
    {<<>>} \cup {<<c>> : c \in RegisterCalls}
           \cup {p \in {<<c, d>> : c, d \in CascadeCalls} : p[1].state # p[2].state}

RECURSIVE register_objects(_, _, _)
register_objects(u, calls, n) ==
    IF n = 0 THEN u
    ELSE LET c == calls[n]
         IN register_object(register_objects(u, calls, n - 1), c.state, c.isdelete,
                            c.listonly, c.cancel_delete).uow

\* uow.mappers[mapper] for each of the mappers: the defaultdict makes the
\* entries that are not there
touch_mappers(u, mappers) ==
    [u EXCEPT !.mappers =
        [m \in DOMAIN @ \cup mappers |-> IF m \in DOMAIN @ THEN @[m] ELSE {}]]

\* the states of the Preprocess's mappers that are not in its processed
\* set, not listonly, and of the given isdelete
unprocessed_states(u, i, isdelete) ==
    LET p == u.presort_actions[i]
        v == touch_mappers(u, preprocess_mappers(p.processor, p.fromparent))
    IN { state \in UNION { v.mappers[m] :
                             m \in preprocess_mappers(p.processor, p.fromparent) } :
           /\ state \notin p.processed
           /\ ~v.states[state][2]
           /\ v.states[state][1] = isdelete }

\* the states handed to the processor by Preprocess i are noted
note_presorted(u, i, handled) ==
    LET key == u.presort_actions[i].processor
    IN [u EXCEPT !.repeated = @ \cup {<<key, s>> : s \in handled \cap
                                        {t \in InstanceStates : <<key, t>> \in u.presorted}},
                 !.presorted = @ \cup {<<key, s>> : s \in handled}]

\* Preprocess.execute that leaves its processed set as it was
preprocess_execute_forgetful(u, i, calls, changes) ==
    LET p == u.presort_actions[i]
        handled == unprocessed_states(u, i, TRUE) \cup unprocessed_states(u, i, FALSE)
        touched == touch_mappers(u, preprocess_mappers(p.processor, p.fromparent))
    IN IF handled = {} THEN [uow |-> touched, ret |-> FALSE]
       ELSE [uow |-> note_presorted(register_objects(touched, calls, Len(calls)),
                                    i, handled),
             ret |-> TRUE]

\* Preprocess.execute of the i-th Preprocess: the unit of work it leaves
\* and the value it returns
preprocess_execute(u, i, calls, changes) ==
    LET p == u.presort_actions[i]
        delete_states == unprocessed_states(u, i, TRUE)
        save_states == unprocessed_states(u, i, FALSE)
        touched == touch_mappers(u, preprocess_mappers(p.processor, p.fromparent))
    IN IF delete_states = {} /\ save_states = {}
       THEN [uow |-> touched, ret |-> FALSE]
       ELSE LET v == note_presorted(register_objects(touched, calls, Len(calls)),
                                    i, delete_states \cup save_states)
            IN [uow |-> [v EXCEPT
                    !.presort_actions[i].processed =
                        @ \cup delete_states \cup save_states,
                    !.presort_actions[i].setup_flush_actions = @ \/ changes],
                ret |-> TRUE]

\* list(self.presort_actions.values()), as positions
presort_list(u) == [i \in 1..Len(u.presort_actions) |-> i]

\* _generate_actions is entered: ret = False and the list of the first pass
BeginPresort ==
    /\ uow.pc = "register"
    /\ uow.states # <<>>
    /\ uow' = [uow EXCEPT !.pc = "presort", !.ret = FALSE, !.todo = presort_list(uow)]
    /\ ShopUnchanged

\* action.execute(self) returns True
PreprocessHandles ==
    \E calls \in Cascades, changes \in BOOLEAN :
        /\ uow.pc = "presort" /\ uow.todo # <<>>
        /\ \A r \in {preprocess_execute(uow, Head(uow.todo), calls, changes)} :
              /\ r.ret
              /\ uow' = [r.uow EXCEPT !.todo = Tail(@), !.ret = TRUE]
        /\ ShopUnchanged

\* action.execute(self) returns False
PreprocessIdle ==
    /\ uow.pc = "presort" /\ uow.todo # <<>>
    /\ \A r \in {preprocess_execute(uow, Head(uow.todo), <<>>, FALSE)} :
          /\ ~r.ret
          /\ uow' = [r.uow EXCEPT !.todo = Tail(@)]
    /\ ShopUnchanged

\* the for loop is through and ret is True: once more
PresortAgain ==
    /\ uow.pc = "presort" /\ uow.todo = <<>> /\ uow.ret
    /\ uow' = [uow EXCEPT !.ret = FALSE, !.todo = presort_list(uow)]
    /\ ShopUnchanged

\* if not ret: break
PresortDone ==
    /\ uow.pc = "presort" /\ uow.todo = <<>> /\ ~uow.ret
    /\ uow' = [uow EXCEPT !.pc = "sorted"]
    /\ ShopUnchanged

NextPresort ==
    \/ RegisterObject \/ BeginPresort
    \/ PreprocessHandles \/ PreprocessIdle \/ PresortAgain \/ PresortDone

\* the steps of the loop
PresortLoop == PreprocessHandles \/ PreprocessIdle \/ PresortAgain \/ PresortDone

SpecPresort == Init /\ [][NextPresort]_vars

\* the loop, once entered, runs on: it is one thread's straight-line code
SpecPresortFair == SpecPresort /\ WF_vars(PresortLoop)

\* every state of the Preprocess's mappers that is recorded and not
\* listonly is in its processed set
AllProcessed(u) ==
    \A i \in 1..Len(u.presort_actions) :
        \A m \in preprocess_mappers(u.presort_actions[i].processor,
                                    u.presort_actions[i].fromparent) :
            m \in DOMAIN u.mappers =>
                \A state \in u.mappers[m] :
                    ~u.states[state][2] => state \in u.presort_actions[i].processed

\* C36: the presort loop, once entered, ends; no Preprocess hands a state
\* to its processor twice; a pass sets ret only in a step that handled a
\* state not handled before, and a further pass begins only with ret set;
\* at the end every recorded state that is not listonly, of the mappers of
\* a registered Preprocess, is in that Preprocess's processed set.
C36_PresortTerminates ==
    /\ (uow.pc = "presort") ~> (uow.pc = "sorted")
    /\ [](uow.repeated = {})
    /\ [](uow.pc = "sorted" => AllProcessed(uow))
    /\ [][(uow.pc = "presort" /\ uow'.pc = "presort") =>
            /\ (~uow.ret /\ uow'.ret) => uow'.presorted # uow.presorted
            /\ (uow.todo = <<>>) => uow.ret]_vars

\* reached: the loop has ended after a cascade registered, during it, a
\* state that two Preprocess objects then handled
C36_Witness ==
    /\ uow.pc = "sorted"
    /\ Cardinality(uow.presorted) >= 3
    /\ \E i, j \in 1..Len(uow.presort_actions) :
          i # j /\ uow.presort_actions[i].processed \cap
                       uow.presort_actions[j].processed # {}

----------------------------------------------------------------------------
(* unitofwork.py: the second half of _generate_actions (cycles) and        *)
(* execute.  The dependency processors add, through                        *)
(* per_property_flush_actions, dependencies between the actions; that code *)
(* is not in this file and the dependencies it adds are a free choice.     *)
(* topological.find_cycles and topological.sort_as_subsets are not in this *)
(* file either: the first gives the actions that lie on a cycle of the     *)
(* dependencies, the second hands out, time after time, the actions none   *)
(* of whose predecessors is still to run.                                  *)

IsSave(a) == a.cls \in {"SaveUpdateAll", "SaveUpdateState"}

IsDelete(a) == a.cls \in {"DeleteAll", "DeleteState"}

\* the dependency _per_mapper_flush_actions adds for a base mapper
SavesBeforeDeletes == {<<SaveUpdateAll(m), DeleteAll(m)>> : m \in Mappers}

\* a dependency processor adds a dependency between two actions
AddDependency ==
    \E a, b \in uow.postsort_actions :
        /\ uow.pc = "register"
        /\ a # b /\ <<a, b>> \notin uow.dependencies
        /\ Cardinality(uow.dependencies \ SavesBeforeDeletes) < MaxDependencies
        /\ uow' = [uow EXCEPT !.dependencies = @ \cup {<<a, b>>}]
        /\ ShopUnchanged

\* the actions reached from those of the set in n steps or fewer
RECURSIVE Reached(_, _, _)
Reached(from, edges, n) ==
    IF n = 0 THEN from
    ELSE LET near == Reached(from, edges, n - 1)
         IN near \cup {e[2] : e \in {d \in edges : d[1] \in near}}

\* topological.find_cycles(tuples, allitems): the items on a cycle
find_cycles(tuples, allitems) ==
    {a \in allitems :
        a \in Reached({e[2] : e \in {d \in tuples : d[1] = a}}, tuples,
                      Cardinality(allitems))}

\* states_for_mapper_hierarchy(mapper, isdelete, False), of a base mapper
states_for_mapper_hierarchy(u, mapper, isdelete) ==
    {state \in DOMAIN u.states :
        /\ state_mapper(state) \in self_and_descendants(base_mapper(mapper))
        /\ u.states[state] = <<isdelete, FALSE>>}

\* rec.per_state_flush_actions(self): the actions it yields
per_state_actions(u, rec) ==
    IF rec.cls = "SaveUpdateAll"
    THEN {SaveUpdateState(state) : state \in states_for_mapper_hierarchy(u, rec.mapper, FALSE)}
    ELSE {DeleteState(state) : state \in states_for_mapper_hierarchy(u, rec.mapper, TRUE)}

\* per_state_flush_actions that add no dependency
per_state_dependencies_none(u, rec) == {}

\* rec.per_state_flush_actions(self): the dependencies it adds, each save
\* before the DeleteAll, the SaveUpdateAll before each delete
per_state_dependencies(u, rec) ==
    IF rec.cls = "SaveUpdateAll"
    THEN {<<action, DeleteAll(rec.mapper)>> : action \in per_state_actions(u, rec)}
    ELSE {<<SaveUpdateAll(rec.mapper), action>> : action \in per_state_actions(u, rec)}

\* the dependencies rewritten to the per-state actions of the actions that
\* were broken up
rewrite_dependencies(u, cycles, edges) ==
    {e \in edges : e[1] \notin cycles /\ e[2] \notin cycles}
        \cup UNION {{<<dep, e[2]>> : dep \in per_state_actions(u, e[1])} :
                       e \in {d \in edges : d[1] \in cycles /\ d[2] \notin cycles}}
        \cup UNION {{<<e[1], dep>> : dep \in per_state_actions(u, e[2])} :
                       e \in {d \in edges : d[1] \notin cycles /\ d[2] \in cycles}}

\* _generate_actions past its presort loop: the cycles, the per-state
\* actions, the dependencies rewritten; todo_set is the set it returns
generate_actions(u) ==
    LET cycles == find_cycles(u.dependencies, u.postsort_actions)
        converted == UNION {per_state_actions(u, rec) : rec \in cycles}
        added == UNION {per_state_dependencies(u, rec) : rec \in cycles}
    IN IF cycles = {}
       THEN [u EXCEPT !.pc = "execute", !.todo_set = u.postsort_actions]
       ELSE [u EXCEPT !.pc = "execute", !.cycles = cycles,
                      !.postsort_actions = @ \cup converted,
                      !.dependencies = rewrite_dependencies(u, cycles, @ \cup added),
                      !.todo_set = (u.postsort_actions \cup converted) \ cycles]

\* execute calls _generate_actions
GenerateActions ==
    /\ uow.pc = "register"
    /\ uow.states # <<>>
    /\ uow' = generate_actions(uow)
    /\ ShopUnchanged

\* sort_as_subsets: the actions to run none of whose predecessors is to run
next_subset(u) ==
    {a \in u.todo_set : \A e \in u.dependencies : e[2] = a => e[1] \notin u.todo_set}

\* the next subset is handed out
NextSubset ==
    /\ uow.pc = "execute" /\ uow.subset = {} /\ next_subset(uow) # {}
    /\ uow' = [uow EXCEPT !.subset = next_subset(uow),
                          !.todo_set = @ \ next_subset(uow)]
    /\ ShopUnchanged

\* execute_aggregate: a per-state action takes with it the actions of its
\* class and mapper that are in the subset
aggregate(rec, recs) ==
    IF rec.cls \in {"SaveUpdateState", "DeleteState"}
    THEN {r \in recs : r.cls = rec.cls /\ r.mapper = rec.mapper}
    ELSE {rec}

\* with cycles: n = set_.pop(); n.execute_aggregate(self, set_)
ExecuteAggregate ==
    \E n \in uow.subset :
        /\ uow.pc = "execute" /\ uow.cycles # {}
        /\ uow' = [uow EXCEPT !.subset = @ \ aggregate(n, uow.subset),
                              !.executed = @ \cup aggregate(n, uow.subset)]
        /\ ShopUnchanged

\* without cycles: rec.execute(self), the actions of a subset in the order
\* of their sort keys, whose first part is the name of the class
ExecuteRec ==
    \E rec \in uow.subset :
        /\ uow.pc = "execute" /\ uow.cycles = {}
        /\ rec.cls = "SaveUpdateAll" => \A r \in uow.subset : r.cls = "SaveUpdateAll"
        /\ uow' = [uow EXCEPT !.subset = @ \ {rec}, !.executed = @ \cup {rec}]
        /\ ShopUnchanged

\* execute returns
FlushDone ==
    /\ uow.pc = "execute" /\ uow.subset = {} /\ uow.todo_set = {}
    /\ uow' = [uow EXCEPT !.pc = "done"]
    /\ ShopUnchanged

NextFlush ==
    \/ RegisterObject \/ AddDependency \/ GenerateActions \/ NextSubset
    \/ ExecuteAggregate \/ ExecuteRec \/ FlushDone

SpecFlush == Init /\ [][NextFlush]_vars

\* the sort does not raise CircularDependencyError: while actions are left,
\* one of them has no predecessor among them.  The dependencies between
\* two actions of a cycle are dropped when the actions are broken up
FlushSortable ==
    (uow.pc = "execute" /\ uow.subset = {} /\ uow.todo_set # {})
        => next_subset(uow) # {}

\* the base mappers that have recorded states
FlushedMappers(u) == {base_mapper(state_mapper(state)) : state \in DOMAIN u.states}

\* the actions execute runs or has run
FlushActions(u) == u.todo_set \cup u.subset \cup u.executed

\* C34: in a flush, for every base mapper with recorded states, the
\* dependency (SaveUpdateAll, DeleteAll) is in the dependency set until the
\* cycles are looked for; after that every save action of the mapper that
\* execute is to run, per mapper or per state, has a dependency to every
\* delete action of the mapper that it is to run; and execute runs no save
\* action of a mapper after a delete action of that mapper.
C34_SavesBeforeDeletes ==
    /\ [](uow.pc = "register" =>
            \A m \in FlushedMappers(uow) :
                <<SaveUpdateAll(m), DeleteAll(m)>> \in uow.dependencies)
    /\ [](uow.pc \in {"execute", "done"} =>
            \A a, b \in FlushActions(uow) :
                (IsSave(a) /\ IsDelete(b) /\ a.mapper = b.mapper)
                    => <<a, b>> \in uow.dependencies)
    /\ [][\A a \in uow'.executed \ uow.executed :
             IsSave(a) => \A b \in uow.executed :
                              ~(IsDelete(b) /\ b.mapper = a.mapper)]_vars

\* reached: a flush is through in which a cycle broke up the actions of
\* Base, and a save and a delete of two of its states have run
C34_Witness ==
    /\ uow.pc = "done"
    /\ SaveUpdateAll("Base") \in uow.cycles /\ DeleteAll("Base") \in uow.cycles
    /\ \E s, t \in InstanceStates :
          SaveUpdateState(s) \in uow.executed /\ DeleteState(t) \in uow.executed
              /\ SaveUpdateState(s).mapper = "Base" /\ DeleteState(t).mapper = "Base"

\* reached: a flush without cycles has run the saves and the deletes of a
\* mapper
C34_PerMapper ==
    /\ uow.pc = "done" /\ uow.cycles = {}
    /\ SaveUpdateAll("Base") \in uow.executed /\ DeleteAll("Base") \in uow.executed
    /\ uow.dependencies # SavesBeforeDeletes \cap uow.dependencies

\* reached: only the saves of Base were broken up
C34_SavesSplit ==
    /\ uow.pc = "done"
    /\ SaveUpdateAll("Base") \in uow.cycles /\ DeleteAll("Base") \notin uow.cycles
    /\ DeleteAll("Base") \in uow.executed
    /\ \E s \in InstanceStates : SaveUpdateState(s) \in uow.executed

\* in the presort loop too, where Preprocess.execute makes entries of
\* uow.mappers before a state of the mapper is registered, every base
\* mapper with recorded states has its saves before its deletes
C34_PairRegistered ==
    \A m \in FlushedMappers(uow) :
        <<SaveUpdateAll(m), DeleteAll(m)>> \in uow.dependencies

============================================================================
